---- MODULE Spec2Model ----
(***************************************************************************)
(* Verification model of context-finder: the batch command (CLI service    *)
(* and MCP helper), the streaming watcher loop and the multi-model indexer.*)
(***************************************************************************)
EXTENDS Integers, Sequences, FiniteSets, TLC

(***************************************************************************)
(* Bounds of the model                                                     *)
(***************************************************************************)
\* number of items of one batch request
MaxItems == 3
\* number of items pushed through the MCP helper
MaxMcpItems == 3
\* the clock stops here
MaxTime == 5
\* fs events and triggers the environment produces in one run
MaxFsEvents == 3
MaxTriggers == 1
\* capacity of the event channel (mpsc::channel(1024)) and of the command
\* channel (mpsc::channel(16)) as the model scales them
EventCap == 1
CommandCap == 1
\* clones of the watcher handle
MaxHandles == 2
\* edits and deletions the project's files undergo in one run
MaxEdits == 2

(***************************************************************************)
(* State                                                                   *)
(***************************************************************************)
VARIABLES
    \* batch, CLI service `run`
    bPc,              \* "init", "loop", "break", "done", "rejected", "aborted"
    bCfg,             \* the parsed BatchPayload: max_chars, stop_on_error, project, n
    output,           \* BatchOutput
    ref_context,      \* the json context `$ref`s resolve against
    seen_ids,         \* HashSet of ids seen
    inferred_project, \* Option<PathBuf>
    gate,             \* Option<FreshnessGate>: TRUE when Some
    processed,        \* history: one entry per item the loop has handled
    overflow,         \* history: the push that went over budget, if any
    \* batch, MCP helper
    mcpPc,            \* "loop", "done"
    mcpOut,           \* BatchResult
    \* watcher
    now,              \* the clock
    wCfg,             \* StreamingIndexerConfig: debounce, max_batch_wait
    wPc,              \* position of the index loop: "select", "indexing", "stopped", "panicked"
    state,            \* DebounceState
    health,           \* IndexerHealth: indexing, pending_events
    event_rx,         \* the fs event channel
    command_rx,       \* the command channel
    handles,          \* Arc::strong_count of the watcher handle
    fsLeft,           \* fs events the environment may still produce
    trigLeft,         \* triggers the callers may still send
    running,          \* history: index cycles in progress
    lastRecv,         \* history: when the loop last received an event on a relevant path,
                      \* since the previous cycle
    trigAt,           \* history: when an idle loop received a trigger not yet served
    cycleAt,          \* history: when the cycle in progress started
    windowFirst,      \* history: when the first event of the current window was accepted
    \* indexer
    disk,             \* project files: file -> mtime (0: absent)
    corpusDisk,       \* the persisted chunk corpus
    storeDisk,        \* the persisted vector store of the primary model
    mtimesDisk,       \* the persisted mtimes.json of the primary model
    iPc,              \* runner -> position inside index_models
    iLoc,             \* runner -> locals of its index_models call
    editsLeft,        \* edits the environment may still make
    watermarkDisk,    \* the persisted index watermark next to the primary store
    lastRun,          \* history: how the last finished run ended, and whether the
                      \* project files are as they were when it scanned them
    \* batch-ref, resolve_batch_refs
    rPc,              \* "input", "resolved", "again"
    rInput,           \* the payload (serde_json::Value)
    rCtx,             \* the context the refs resolve against
    rOut,             \* Result of resolve_batch_refs(rInput, rCtx)
    rOut2,            \* Result of resolving rOut's value once more
    \* tool and library calls: text_search, grep_context, the assembler, ...
    callPc,           \* position of the caller
    callIn,           \* what the calls are made with
    callOut           \* what the calls have returned so far

batchVars == <<bPc, bCfg, output, ref_context, seen_ids, inferred_project, gate,
               processed, overflow>>
mcpVars == <<mcpPc, mcpOut>>
watcherVars == <<now, wCfg, wPc, state, health, event_rx, command_rx, handles,
                 fsLeft, trigLeft, running, lastRecv, trigAt, cycleAt, windowFirst>>
indexVars == <<disk, corpusDisk, storeDisk, mtimesDisk, iPc, iLoc, editsLeft,
               watermarkDisk, lastRun>>
refVars == <<rPc, rInput, rCtx, rOut, rOut2>>
callVars == <<callPc, callIn, callOut>>
vars == <<batchVars, mcpVars, watcherVars, indexVars, refVars, callVars>>
notBatch == <<mcpVars, watcherVars, indexVars, refVars, callVars>>
notMcp == <<batchVars, watcherVars, indexVars, refVars, callVars>>
notWatcher == <<batchVars, mcpVars, indexVars, refVars, callVars>>
notIndex == <<batchVars, mcpVars, watcherVars, refVars, callVars>>
notRef == <<batchVars, mcpVars, watcherVars, indexVars, callVars>>
notCall == <<batchVars, mcpVars, watcherVars, indexVars, refVars>>

(***************************************************************************)
(* Program constants                                                       *)
(***************************************************************************)
MAX_DEPTH == 64
DEFAULT_BATCH_MAX_CHARS == 20000
MAX_BATCH_MAX_CHARS == 500000

(***************************************************************************)
(* Batch: serialization lengths                                            *)
(***************************************************************************)
\* serde_json Value::Null as the data of a result item
NullData == [by |-> 0, size |-> 4]

NoRec == [status |-> "absent", msg |-> "none", data |-> NullData]

\* number of decimal digits of a usize as serde_json prints it
Digits(n) ==
    IF n < 10 THEN 1
    ELSE IF n < 100 THEN 2
    ELSE IF n < 1000 THEN 3
    ELSE IF n < 10000 THEN 4
    ELSE IF n < 100000 THEN 5
    ELSE IF n < 1000000 THEN 6
    ELSE 7

\* character count of an id ("" or a one-letter id)
IdLen(id) == IF id = "" THEN 0 ELSE 1

\* character count of the message of a result item
MsgLen(msg, max_chars) ==
    CASE msg = "none" -> 0
      [] msg = "empty_id" -> 31
      [] msg = "duplicate" -> 44
      [] msg = "nested" -> 38
      [] msg = "ref_error" -> 60
      [] msg = "project_mismatch" -> 50
      [] msg = "stale_block" -> 40
      [] msg = "service_error" -> 30
      [] msg = "budget_exceeded" -> 76 + Digits(max_chars)
      [] OTHER -> 0

\* character count of the data of a result item
DataLen(data) == data.size

\* {"id":"..","status":"..","data":..,"meta":{}} of the CLI; an error item
\* carries its message twice (message and error.message)
CliItemLen(it, max_chars) ==
    IF it.status = "ok"
    THEN 40 + IdLen(it.id) + DataLen(it.data)
    ELSE 70 + IdLen(it.id) + 2 * MsgLen(it.msg, max_chars) + DataLen(it.data)

\* {"id":"..","tool":"..","status":"..","message":"..","data":..} of the MCP
\* server, tool names of three characters
McpItemLen(it, max_chars) ==
    IF it.status = "ok"
    THEN 47 + IdLen(it.id) + DataLen(it.data)
    ELSE 60 + IdLen(it.id) + MsgLen(it.msg, max_chars) + DataLen(it.data)

RECURSIVE SumItemLen(_, _, _)
SumItemLen(items, max_chars, mcp) ==
    IF items = <<>> THEN 0
    ELSE (IF mcp THEN McpItemLen(Head(items), max_chars)
                 ELSE CliItemLen(Head(items), max_chars))
         + SumItemLen(Tail(items), max_chars, mcp)

\* serde_json::to_string(envelope).chars().count() with budget.used_chars
\* set to `used`:
\* {"version":1,"items":[..],"budget":{"max_chars":N,"used_chars":M,
\*  "truncated":B[,"truncation":"max_chars"]}}
EnvelopeLen(out, used, mcp) ==
    75 + Digits(out.max_chars) + Digits(used)
       + (IF out.truncated THEN 4 ELSE 5)
       + (IF out.truncated /\ ~mcp THEN 25 ELSE 0)
       + SumItemLen(out.items, out.max_chars, mcp)
       + (IF Len(out.items) > 1 THEN Len(out.items) - 1 ELSE 0)

\* mcp-server compute_used_chars: serialize with used_chars = 0, then with
\* the length found, then once more if the length moved
compute_used_chars(out) ==
    LET used0 == EnvelopeLen(out, 0, TRUE)
        next == EnvelopeLen(out, used0, TRUE)
    IN IF next = used0 THEN used0 ELSE EnvelopeLen(out, next, TRUE)

\* context_protocol finalize_used_chars: the length of the serialized
\* envelope once used_chars holds that very length
finalize_used_chars(out) ==
    LET used0 == EnvelopeLen(out, 0, FALSE)
        next == EnvelopeLen(out, used0, FALSE)
    IN IF next = used0 THEN used0 ELSE EnvelopeLen(out, next, FALSE)

finalize_batch_budget(out) == finalize_used_chars(out)

\* context_protocol enforce_max_chars as trim_batch_output uses it: finalize;
\* while the envelope is over max_chars mark it truncated and pop the last
\* item; stop when it fits or nothing is left to pop
RECURSIVE enforce_max_chars(_)
enforce_max_chars(out) ==
    LET used == finalize_used_chars(out)
    IN IF used <= out.max_chars
       THEN [out EXCEPT !.used_chars = used]
       ELSE LET marked == [out EXCEPT !.truncated = TRUE]
            IN IF marked.items # <<>>
               THEN enforce_max_chars(
                      [marked EXCEPT !.items = SubSeq(marked.items, 1, Len(marked.items) - 1)])
               ELSE [marked EXCEPT !.used_chars = finalize_used_chars(marked)]

trim_batch_output(out) == enforce_max_chars(out)

error_item(id, msg) == [id |-> id, status |-> "error", msg |-> msg, data |-> NullData]

\* push_item_or_truncate that forgets to pop the item that went over budget
push_item_or_truncate_keep(out, item) ==
    LET pushed == [out EXCEPT !.items = Append(out.items, item)]
        used == finalize_batch_budget(pushed)
    IN IF used > out.max_chars
       THEN [out |-> [pushed EXCEPT !.truncated = TRUE, !.used_chars = used], pushed |-> FALSE]
       ELSE [out |-> [pushed EXCEPT !.used_chars = used], pushed |-> TRUE]

\* cli push_item_or_truncate: result [out, pushed]
push_item_or_truncate(out, item) ==
    LET pushed == [out EXCEPT !.items = Append(out.items, item)]
        used == finalize_batch_budget(pushed)
    IN IF used > out.max_chars
       THEN LET popped == [out EXCEPT !.truncated = TRUE]
                refilled == IF popped.items = <<>>
                            THEN [popped EXCEPT !.items = <<error_item(item.id, "budget_exceeded")>>]
                            ELSE popped
            IN [out |-> trim_batch_output(refilled), pushed |-> FALSE]
       ELSE [out |-> [pushed EXCEPT !.used_chars = used], pushed |-> TRUE]

\* mcp-server push_item_or_truncate: result [out, pushed]
mcp_push_item_or_truncate(out, item) ==
    LET pushed == [out EXCEPT !.items = Append(out.items, item)]
        used == compute_used_chars(pushed)
    IN IF used > out.max_chars
       THEN LET popped == [out EXCEPT !.truncated = TRUE]
                refilled == IF popped.items = <<>>
                            THEN [popped EXCEPT !.items = <<error_item(item.id, "budget_exceeded")>>]
                            ELSE popped
            IN [out |-> [refilled EXCEPT !.used_chars = compute_used_chars(refilled)],
                pushed |-> FALSE]
       ELSE [out |-> [pushed EXCEPT !.used_chars = used], pushed |-> TRUE]

(***************************************************************************)
(* Batch: the CLI service `run`                                            *)
(***************************************************************************)
ItemIds == {"a", "b"}
Projects == {"P", "Q"}
DataSizes == {20, 400}
MaxCharsInputs == {[some |-> FALSE, v |-> 0]} \cup [some : {TRUE}, v : {1, 200, 400}]

\* the items a request may carry: id (already trimmed), action, and a payload
\* {"x": {"$ref": "#/items/<ref>/data"[, "$default": 0]}, "project": <project>}
ItemTemplates ==
    { [id |-> "a", action |-> "search",      ref |-> "none", dflt |-> FALSE, project |-> "none"],
      [id |-> "b", action |-> "search",      ref |-> "a",    dflt |-> FALSE, project |-> "none"],
      [id |-> "b", action |-> "config_read", ref |-> "a",    dflt |-> TRUE,  project |-> "P"],
      [id |-> "a", action |-> "config_read", ref |-> "none", dflt |-> FALSE, project |-> "Q"],
      [id |-> "",  action |-> "search",      ref |-> "none", dflt |-> FALSE, project |-> "none"],
      [id |-> "b", action |-> "batch",       ref |-> "none", dflt |-> FALSE, project |-> "none"],
      [id |-> "b", action |-> "index",       ref |-> "none", dflt |-> FALSE, project |-> "none"] }

\* payload.max_chars.unwrap_or(DEFAULT).clamp(1, MAX)
ClampMaxChars(input) ==
    LET v == IF input.some THEN input.v ELSE DEFAULT_BATCH_MAX_CHARS
    IN IF v < 1 THEN 1 ELSE IF v > MAX_BATCH_MAX_CHARS THEN MAX_BATCH_MAX_CHARS ELSE v

NewOutput(max_chars, truncated) ==
    [items |-> <<>>, max_chars |-> max_chars, used_chars |-> 0, truncated |-> truncated]

\* min_chars: the empty envelope flagged truncated
MinChars(max_chars) == finalize_batch_budget(NewOutput(max_chars, TRUE))

\* freshness::action_requires_index
action_requires_index(action) == action \in {"search"}

\* resolve_batch_refs on the payload of an item: [ok, value]
resolve_batch_refs(item, ctx) ==
    IF item.ref = "none" THEN [ok |-> TRUE, value |-> "none"]
    ELSE LET rec == ctx.items[item.ref]
         IN IF rec.status = "ok"
            THEN [ok |-> TRUE, value |-> rec.data]
            ELSE IF item.dflt THEN [ok |-> TRUE, value |-> "default"]
            ELSE [ok |-> FALSE, value |-> "none"]

CtxRecord(it) == [status |-> it.status, msg |-> it.msg, data |-> it.data]

BatchInit ==
    /\ bPc = "init"
    /\ bCfg \in [max_chars : MaxCharsInputs, stop_on_error : BOOLEAN,
                 project : {"none", "P"}, n : 0..MaxItems]
    /\ output = NewOutput(0, FALSE)
    /\ ref_context = [project |-> "none", items |-> [i \in ItemIds |-> NoRec]]
    /\ seen_ids = {}
    /\ inferred_project = "none"
    /\ gate = FALSE
    /\ processed = <<>>
    /\ overflow = [hit |-> FALSE, before |-> <<>>, item |-> error_item("", "none")]

\* run, lines 23-68: parse, clamp, reject a budget below the envelope floor
BatchStart ==
    /\ bPc = "init"
    /\ LET max_chars == ClampMaxChars(bCfg.max_chars)
       IN /\ output' = NewOutput(max_chars, FALSE)
          /\ bPc' = IF MinChars(max_chars) > max_chars THEN "rejected" ELSE "loop"
    /\ inferred_project' = bCfg.project
    /\ ref_context' = [ref_context EXCEPT !.project = bCfg.project]
    /\ UNCHANGED <<bCfg, seen_ids, gate, processed, overflow>>
    /\ UNCHANGED notBatch

\* the tail every branch of the loop body shares: push_item_or_truncate,
\* break when it refuses; record the result in ref_context (unless the id is
\* empty); break on stop_on_error after an error
PushAndRecord(tmpl, result, record, dispatched, ctxUsed, project) ==
    LET res == push_item_or_truncate(output, result)
    IN /\ output' = res.out
       /\ processed' = Append(processed,
             [id |-> tmpl.id, action |-> tmpl.action, project |-> tmpl.project,
              rec |-> CtxRecord(result), dispatched |-> dispatched,
              ctx |-> ctxUsed, pushed |-> res.pushed])
       /\ IF res.pushed
          THEN /\ ref_context' =
                    [project |-> project,
                     items |-> IF record
                               THEN [ref_context.items EXCEPT ![tmpl.id] = CtxRecord(result)]
                               ELSE ref_context.items]
               /\ bPc' = IF bCfg.stop_on_error /\ result.status = "error"
                         THEN "break" ELSE "loop"
               /\ UNCHANGED overflow
          ELSE /\ ref_context' = [ref_context EXCEPT !.project = project]
               /\ bPc' = "break"
               /\ overflow' = [hit |-> TRUE, before |-> output.items, item |-> result]

InLoop == bPc = "loop" /\ Len(processed) < bCfg.n

\* lines 71-86
ItemEmptyId ==
    /\ InLoop
    /\ \E tmpl \in ItemTemplates :
        /\ tmpl.id = ""
        /\ PushAndRecord(tmpl, error_item(tmpl.id, "empty_id"), FALSE, FALSE,
                         ref_context.items, ref_context.project)
    /\ UNCHANGED <<bCfg, seen_ids, inferred_project, gate>>
    /\ UNCHANGED notBatch

\* lines 88-109
ItemDuplicateId ==
    /\ InLoop
    /\ \E tmpl \in ItemTemplates :
        /\ tmpl.id # ""
        /\ tmpl.id \in seen_ids
        /\ PushAndRecord(tmpl, error_item(tmpl.id, "duplicate"), TRUE, FALSE,
                         ref_context.items, ref_context.project)
    /\ UNCHANGED <<bCfg, seen_ids, inferred_project, gate>>
    /\ UNCHANGED notBatch

\* lines 111-132
ItemNestedBatch ==
    /\ InLoop
    /\ \E tmpl \in ItemTemplates :
        /\ tmpl.id # ""
        /\ tmpl.id \notin seen_ids
        /\ tmpl.action = "batch"
        /\ seen_ids' = seen_ids \cup {tmpl.id}
        /\ PushAndRecord(tmpl, error_item(tmpl.id, "nested"), TRUE, FALSE,
                         ref_context.items, ref_context.project)
    /\ UNCHANGED <<bCfg, inferred_project, gate>>
    /\ UNCHANGED notBatch

\* Fresh without the check of lines 88-109: a seen id passes
Fresh_seen_id_passes(tmpl) == tmpl.id # "" /\ tmpl.action # "batch"

Fresh(tmpl) == tmpl.id # "" /\ tmpl.id \notin seen_ids /\ tmpl.action # "batch"

\* lines 134-164
ItemRefError ==
    /\ InLoop
    /\ \E tmpl \in ItemTemplates :
        /\ Fresh(tmpl)
        /\ ~resolve_batch_refs(tmpl, ref_context).ok
        /\ seen_ids' = seen_ids \cup {tmpl.id}
        /\ PushAndRecord(tmpl, error_item(tmpl.id, "ref_error"), TRUE, FALSE,
                         ref_context.items, inferred_project)
    /\ UNCHANGED <<bCfg, inferred_project, gate>>
    /\ UNCHANGED notBatch

Resolved(tmpl) == Fresh(tmpl) /\ resolve_batch_refs(tmpl, ref_context).ok

\* lines 166-197
ItemProjectMismatch ==
    /\ InLoop
    /\ \E tmpl \in ItemTemplates :
        /\ Resolved(tmpl)
        /\ inferred_project # "none" /\ tmpl.project # "none"
        /\ inferred_project # tmpl.project
        /\ seen_ids' = seen_ids \cup {tmpl.id}
        /\ PushAndRecord(tmpl, error_item(tmpl.id, "project_mismatch"), TRUE, FALSE,
                         ref_context.items, inferred_project)
    /\ UNCHANGED <<bCfg, inferred_project, gate>>
    /\ UNCHANGED notBatch

\* ProjectOk without the comparison of lines 169-196
ProjectOk_any_project(tmpl) == Resolved(tmpl)

ProjectOk(tmpl) ==
    /\ Resolved(tmpl)
    /\ ~(inferred_project # "none" /\ tmpl.project # "none" /\ inferred_project # tmpl.project)

\* lines 166-168, 199-203: the project after this item's inference
NextProject(tmpl) == IF inferred_project = "none" THEN tmpl.project ELSE inferred_project

NeedsGate(tmpl) == action_requires_index(tmpl.action) /\ ~gate

\* lines 205-215: `ctx.resolve_project(..).await?` or
\* `enforce_stale_policy(..).await?` returns Err: `?` leaves run with that Err
ItemGateFails ==
    /\ InLoop
    /\ \E tmpl \in ItemTemplates :
        /\ ProjectOk(tmpl)
        /\ NeedsGate(tmpl)
        /\ seen_ids' = seen_ids \cup {tmpl.id}
        /\ inferred_project' = NextProject(tmpl)
        /\ ref_context' = [ref_context EXCEPT !.project = NextProject(tmpl)]
        /\ processed' = Append(processed,
              [id |-> tmpl.id, action |-> tmpl.action, project |-> tmpl.project,
               rec |-> NoRec, dispatched |-> FALSE,
               ctx |-> ref_context.items, pushed |-> FALSE])
    /\ bPc' = "aborted"
    /\ UNCHANGED <<bCfg, output, gate, overflow>>
    /\ UNCHANGED notBatch

\* lines 216-250: the stale policy blocks the item
ItemGateBlocks ==
    /\ InLoop
    /\ \E tmpl \in ItemTemplates :
        /\ ProjectOk(tmpl)
        /\ NeedsGate(tmpl)
        /\ seen_ids' = seen_ids \cup {tmpl.id}
        /\ inferred_project' = NextProject(tmpl)
        /\ PushAndRecord(tmpl, error_item(tmpl.id, "stale_block"), TRUE, FALSE,
                         ref_context.items, NextProject(tmpl))
    /\ UNCHANGED <<bCfg, gate>>
    /\ UNCHANGED notBatch

\* lines 253-358: the item is routed to its service, which answers Ok(data)
\* or Err
ItemDispatch ==
    /\ InLoop
    /\ \E tmpl \in ItemTemplates, svcOk \in BOOLEAN, size \in DataSizes :
        /\ ProjectOk(tmpl)
        /\ seen_ids' = seen_ids \cup {tmpl.id}
        /\ inferred_project' = NextProject(tmpl)
        /\ gate' = IF svcOk /\ tmpl.action = "index" THEN FALSE
                   ELSE (gate \/ action_requires_index(tmpl.action))
        /\ PushAndRecord(tmpl,
              IF ~svcOk THEN error_item(tmpl.id, "service_error")
              ELSE [id |-> tmpl.id, status |-> "ok", msg |-> "none",
                    data |-> [by |-> Len(processed) + 1, size |-> size]],
              TRUE, TRUE, ref_context.items, NextProject(tmpl))
    /\ UNCHANGED bCfg
    /\ UNCHANGED notBatch

\* line 268: after a successful index item `ctx.resolve_project(..).await?`
\* returns Err
ItemIndexResolveFails ==
    /\ InLoop
    /\ \E tmpl \in ItemTemplates :
        /\ ProjectOk(tmpl)
        /\ tmpl.action = "index"
        /\ seen_ids' = seen_ids \cup {tmpl.id}
        /\ inferred_project' = NextProject(tmpl)
        /\ ref_context' = [ref_context EXCEPT !.project = NextProject(tmpl)]
        /\ processed' = Append(processed,
              [id |-> tmpl.id, action |-> tmpl.action, project |-> tmpl.project,
               rec |-> NoRec, dispatched |-> TRUE,
               ctx |-> ref_context.items, pushed |-> FALSE])
    /\ bPc' = "aborted"
    /\ UNCHANGED <<bCfg, output, gate, overflow>>
    /\ UNCHANGED notBatch

\* lines 360-373: the loop is over; final trim pass
BatchFinish ==
    /\ \/ bPc = "break"
       \/ bPc = "loop" /\ Len(processed) = bCfg.n
    /\ output' = trim_batch_output(output)
    /\ bPc' = "done"
    /\ UNCHANGED <<bCfg, ref_context, seen_ids, inferred_project, gate, processed, overflow>>
    /\ UNCHANGED notBatch

BatchNext ==
    \/ BatchStart
    \/ ItemEmptyId
    \/ ItemDuplicateId
    \/ ItemNestedBatch
    \/ ItemRefError
    \/ ItemProjectMismatch
    \/ ItemGateFails
    \/ ItemGateBlocks
    \/ ItemDispatch
    \/ ItemIndexResolveFails
    \/ BatchFinish

(***************************************************************************)
(* Batch: the MCP server's budget helper                                   *)
(***************************************************************************)
McpBudgets == {200, 400, 20000}

\* results the batch tool hands to push_item_or_truncate
McpResults ==
    { [id |-> i, status |-> "ok", msg |-> "none", data |-> [by |-> 1, size |-> sz]] :
        i \in ItemIds, sz \in DataSizes }
    \cup { error_item(i, "service_error") : i \in ItemIds }

McpInit ==
    /\ mcpPc = "loop"
    /\ \E m \in McpBudgets : mcpOut = NewOutput(m, FALSE)

\* one item of the batch tool: its result goes through push_item_or_truncate;
\* the tool stops appending once the helper answers false
McpPushItem ==
    /\ mcpPc = "loop"
    /\ Len(mcpOut.items) < MaxMcpItems
    /\ \E result \in McpResults :
        LET res == mcp_push_item_or_truncate(mcpOut, result)
        IN /\ mcpOut' = res.out
           /\ mcpPc' = IF res.pushed THEN "loop" ELSE "done"
    /\ UNCHANGED notMcp

\* the batch tool has no item left and returns the envelope
McpFinish ==
    /\ mcpPc = "loop"
    /\ mcpPc' = "done"
    /\ UNCHANGED mcpOut
    /\ UNCHANGED notMcp

McpNext == McpPushItem \/ McpFinish

(***************************************************************************)
(* batch-ref: json values                                                  *)
(*                                                                         *)
(* A json string is a sequence of pieces of text: the characters "#", "/", *)
(* "~", "0", "1", "2" and words without any of these ("items", "data",     *)
(* ...). Object keys are TLA+ strings, the pieces joined.                  *)
(***************************************************************************)
Null == [t |-> "null"]
Num(n) == [t |-> "num", n |-> n]
Str(pieces) == [t |-> "str", s |-> pieces]
Arr(a) == [t |-> "arr", a |-> a]
Obj(m) == [t |-> "obj", m |-> m]

\* Value::get(key) with a string key: Some only on an object holding the key
Get(v, key) ==
    IF v.t = "obj" /\ key \in DOMAIN v.m THEN [some |-> TRUE, v |-> v.m[key]]
    ELSE [some |-> FALSE, v |-> Null]

NoErr == [kind |-> "none", id |-> "", msg |-> <<>>]
RefOk(v) == [ok |-> TRUE, v |-> v, err |-> NoErr]
RefErr(kind, id, msg) == [ok |-> FALSE, v |-> Null, err |-> [kind |-> kind, id |-> id, msg |-> msg]]

(***************************************************************************)
(* batch-ref: resolve_json_pointer                                         *)
(***************************************************************************)
\* decode_pointer_token: [ok, s], s the decoded token as a key
RECURSIVE decode_pointer_token(_)
decode_pointer_token(token) ==
    IF token = <<>> THEN [ok |-> TRUE, s |-> ""]
    ELSE IF Head(token) # "~"
    THEN LET rest == decode_pointer_token(Tail(token))
         IN IF rest.ok THEN [ok |-> TRUE, s |-> Head(token) \o rest.s] ELSE rest
    ELSE IF Len(token) = 1 THEN [ok |-> FALSE, s |-> ""]
    ELSE IF token[2] \in {"0", "1"}
    THEN LET rest == decode_pointer_token(SubSeq(token, 3, Len(token)))
         IN IF rest.ok
            THEN [ok |-> TRUE, s |-> (IF token[2] = "0" THEN "~" ELSE "/") \o rest.s]
            ELSE rest
    ELSE [ok |-> FALSE, s |-> ""]

\* str::split('/'): the pieces between the slashes, `cur` being the piece
\* under construction
RECURSIVE split(_, _)
split(rest, cur) ==
    IF rest = <<>> THEN <<cur>>
    ELSE IF Head(rest) = "/" THEN <<cur>> \o split(Tail(rest), <<>>)
    ELSE split(Tail(rest), Append(cur, Head(rest)))

\* token.parse::<usize>() on the tokens the model uses
ParseIndex(token) ==
    IF token = "0" THEN [ok |-> TRUE, n |-> 0]
    ELSE IF token = "1" THEN [ok |-> TRUE, n |-> 1]
    ELSE IF token = "2" THEN [ok |-> TRUE, n |-> 2]
    ELSE [ok |-> FALSE, n |-> 0]

\* lines 52-76: walk the decoded tokens down from `current`
RECURSIVE walk(_, _)
walk(current, tokens) ==
    IF tokens = <<>> THEN RefOk(current)
    ELSE LET token == Head(tokens)
         IN IF current.t = "obj"
            THEN IF token \in DOMAIN current.m
                 THEN walk(current.m[token], Tail(tokens))
                 ELSE RefErr("not_found", token, <<>>)
            ELSE IF current.t = "arr"
            THEN LET idx == ParseIndex(token)
                 IN IF ~idx.ok THEN RefErr("expected_index", token, <<>>)
                    ELSE IF idx.n + 1 > Len(current.a)
                    THEN RefErr("out_of_bounds", token, <<>>)
                    ELSE walk(current.a[idx.n + 1], Tail(tokens))
            ELSE RefErr("non_container", token, <<>>)

\* lines 35-38: decode every token; [ok, tokens]
RECURSIVE decode_all(_)
decode_all(raws) ==
    IF raws = <<>> THEN [ok |-> TRUE, tokens |-> <<>>]
    ELSE LET first == decode_pointer_token(Head(raws))
             rest == decode_all(Tail(raws))
         IN IF ~first.ok THEN [ok |-> FALSE, tokens |-> <<>>]
            ELSE IF ~rest.ok THEN rest
            ELSE [ok |-> TRUE, tokens |-> <<first.s>> \o rest.tokens]

\* lines 40-50: the pointer goes through items/<id>/data and the context
\* records that item with status "error"; [hit, id, msg]
failed_item(root, tokens) ==
    LET item == IF Len(tokens) >= 3 /\ tokens[1] = "items" /\ tokens[3] = "data"
                THEN Get(Get(root, "items").v, tokens[2])
                ELSE [some |-> FALSE, v |-> Null]
        status == Get(item.v, "status")
        message == Get(item.v, "message")
    IN IF item.some /\ status.some /\ status.v = Str(<<"error">>)
       THEN [hit |-> TRUE, id |-> tokens[2],
             msg |-> IF message.some /\ message.v.t = "str" THEN message.v.s
                     ELSE <<"unknown error">>]
       ELSE [hit |-> FALSE, id |-> "", msg |-> <<>>]

\* resolve_json_pointer that does not look for a failed item
resolve_json_pointer_unchecked(root, pointer) ==
    LET stripped == IF pointer # <<>> /\ Head(pointer) = "#" THEN Tail(pointer) ELSE pointer
    IN IF stripped = <<>> THEN RefOk(root)
       ELSE IF Head(stripped) # "/" THEN RefErr("not_a_pointer", "", <<>>)
       ELSE LET decoded == decode_all(Tail(split(stripped, <<>>)))
            IN IF ~decoded.ok THEN RefErr("invalid_escape", "", <<>>)
               ELSE walk(root, decoded.tokens)

\* resolve_json_pointer, lines 21-77
resolve_json_pointer(root, pointer) ==
    LET stripped == IF pointer # <<>> /\ Head(pointer) = "#" THEN Tail(pointer) ELSE pointer
    IN IF stripped = <<>> THEN RefOk(root)
       ELSE IF Head(stripped) # "/" THEN RefErr("not_a_pointer", "", <<>>)
       ELSE LET decoded == decode_all(Tail(split(stripped, <<>>)))
                failed == failed_item(root, decoded.tokens)
            IN IF ~decoded.ok THEN RefErr("invalid_escape", "", <<>>)
               ELSE IF failed.hit THEN RefErr("failed_item", failed.id, failed.msg)
               ELSE walk(root, decoded.tokens)

(***************************************************************************)
(* batch-ref: resolve_inner, resolve_batch_refs                            *)
(***************************************************************************)
\* default_value that never finds a `$default`
default_value_none(m) == [some |-> FALSE, v |-> Null]

\* line 97: map.get("$default").cloned()
default_value(m) ==
    IF "$default" \in DOMAIN m THEN [some |-> TRUE, v |-> m["$default"]]
    ELSE [some |-> FALSE, v |-> Null]

\* is_ref_wrapper that knows only the one-key form
is_ref_wrapper_one_key(m) == "$ref" \in DOMAIN m /\ Cardinality(DOMAIN m) = 1

\* lines 98-99
is_ref_wrapper(m) ==
    /\ "$ref" \in DOMAIN m
    /\ \/ Cardinality(DOMAIN m) = 1
       \/ Cardinality(DOMAIN m) = 2 /\ default_value(m).some

\* resolve_inner that hands the value back unresolved beyond MAX_DEPTH
DepthExceeded_returns_value(value) == RefOk(value)

\* lines 84-86: beyond MAX_DEPTH resolve_inner returns an Err
DepthExceeded(value) == RefErr("max_depth", "", <<>>)

\* lines 89-95: the items are resolved in order, one level down, and the
\* first Err is returned
RECURSIVE resolve_inner(_, _, _), ResolvedArray(_, _, _)
ResolvedArray(a, ctx, depth) ==
    IF a = <<>> THEN RefOk(Arr(<<>>))
    ELSE LET item == resolve_inner(Head(a), ctx, depth + 1) IN
         IF ~item.ok THEN item
         ELSE LET out == ResolvedArray(Tail(a), ctx, depth) IN
              IF ~out.ok THEN out ELSE RefOk(Arr(<<item.v>> \o out.v.a))

\* the payloads of the model hold at most one failing entry per object, so
\* that the Err an object returns does not depend on the order of its map
ResolvedObject(m, results) ==
    IF \E k \in DOMAIN m : ~results[k].ok
    THEN results[CHOOSE k \in DOMAIN m : ~results[k].ok]
    ELSE RefOk(Obj([k \in DOMAIN m |-> results[k].v]))

\* what a ref wrapper goes on to resolve: [go, next] or the Err it returns
WrapperTarget(m, ctx) ==
    IF m["$ref"].t # "str" THEN [go |-> FALSE, next |-> Null,
                                 err |-> RefErr("ref_not_a_string", "", <<>>)]
    ELSE IF resolve_json_pointer(ctx, m["$ref"].s).ok
    THEN [go |-> TRUE, next |-> resolve_json_pointer(ctx, m["$ref"].s).v, err |-> RefOk(Null)]
    ELSE IF default_value(m).some
    THEN [go |-> TRUE, next |-> default_value(m).v, err |-> RefOk(Null)]
    ELSE [go |-> FALSE, next |-> Null, err |-> resolve_json_pointer(ctx, m["$ref"].s)]

\* resolve_inner, lines 79-126
resolve_inner(value, ctx, depth) ==
    CASE depth > MAX_DEPTH -> DepthExceeded(value)
      [] depth <= MAX_DEPTH /\ value.t = "arr" ->
            ResolvedArray(value.a, ctx, depth)
      [] depth <= MAX_DEPTH /\ value.t = "obj" /\ ~is_ref_wrapper(value.m) ->
            ResolvedObject(value.m,
                [k \in DOMAIN value.m |-> resolve_inner(value.m[k], ctx, depth + 1)])
      [] depth <= MAX_DEPTH /\ value.t = "obj" /\ is_ref_wrapper(value.m)
            /\ WrapperTarget(value.m, ctx).go ->
            resolve_inner(WrapperTarget(value.m, ctx).next, ctx, depth + 1)
      [] depth <= MAX_DEPTH /\ value.t = "obj" /\ is_ref_wrapper(value.m)
            /\ ~WrapperTarget(value.m, ctx).go ->
            WrapperTarget(value.m, ctx).err
      [] OTHER -> RefOk(value)

\* resolve_batch_refs, lines 128-133
ResolveBatchRefs(input, ctx) == resolve_inner(input, ctx, 0)

(***************************************************************************)
(* batch-ref: the payloads and contexts resolve_batch_refs is applied to   *)
(***************************************************************************)
\* `{"$ref": pointer}` and `{"$ref": pointer, "$default": d}`
Ref(pointer) == Obj("$ref" :> Str(pointer))
RefD(pointer, d) == Obj(("$ref" :> Str(pointer)) @@ ("$default" :> d))
\* the payload `{"x": v}`
Wrap(v) == Obj("x" :> v)

\* the ids of items a context may record, and how a pointer spells them
RefItemKeys == {"a", "bad", "a/b", "schema", "cyc"}
Spelled(key) == IF key = "a/b" THEN <<"a", "~", "1", "b">> ELSE <<key>>

\* "#/items/<id>/data"
PData(id) == <<"#", "/", "items", "/">> \o id \o <<"/", "data">>

\* the pointers that go through items/<key>/data: with and without the "#",
\* and one level below data
PointersThrough(key) ==
    {PData(Spelled(key)), Tail(PData(Spelled(key))), PData(Spelled(key)) \o <<"/", "v">>}

RefPointers ==
    UNION {PointersThrough(key) : key \in RefItemKeys \cup {"missing"}}
    \cup { PData(<<"a">>) \o <<"/", "list", "/", "1">>,
           PData(<<"a">>) \o <<"/", "list", "/", "2">>,
           PData(<<"a">>) \o <<"/", "list", "/", "v">>,
           <<"#", "/", "items", "/", "bad">>,
           <<"items", "/", "a">>,
           <<"#", "/", "items", "/", "~", "2">> }

\* the entry batch.rs records under ref_context["items"][id]
ItemRecord(status, message, data) ==
    Obj(("status" :> Str(<<status>>)) @@ ("message" :> message) @@ ("data" :> data))

RefItem(key) ==
    IF key = "a"
    THEN ItemRecord("ok", Null, Obj(("v" :> Num(1)) @@ ("list" :> Arr(<<Num(1), Num(2)>>))))
    ELSE IF key = "bad" THEN ItemRecord("error", Str(<<"nope">>), Null)
    ELSE IF key = "a/b" THEN ItemRecord("error", Str(<<"boom">>), Null)
    ELSE IF key = "schema" THEN ItemRecord("ok", Null, Ref(PData(<<"bad">>)))
    ELSE ItemRecord("ok", Null, Ref(PData(<<"cyc">>)))

\* ref_context as batch.rs builds it, lines 64-68
RefContexts ==
    { Obj(("project" :> Null) @@ ("path" :> Null)
            @@ ("items" :> Obj([key \in present |-> RefItem(key)])))
        : present \in SUBSET RefItemKeys }

RefDefaults ==
    {Num(42), Null, Ref(PData(<<"a">>)), Ref(PData(<<"bad">>)), Ref(PData(<<"missing">>))}

RefPayloads ==
    {Wrap(Ref(pointer)) : pointer \in RefPointers}
    \cup {Arr(<<Ref(pointer), Num(7)>>) : pointer \in RefPointers}
    \cup {Wrap(RefD(pointer, d)) : pointer \in RefPointers, d \in RefDefaults}
    \cup {Wrap(Obj(("$ref" :> Str(pointer)) @@ ("other" :> Num(1)))) :
             pointer \in PointersThrough("a")}
    \cup {Wrap(Obj("$ref" :> Num(5))), Wrap(RefD(PData(<<"a">>), Ref(PData(<<"bad">>)))),
          Num(3), Wrap(Str(PData(<<"a">>)))}

NoResult == [ok |-> FALSE, v |-> Null, err |-> NoErr]

RefInit ==
    /\ rPc = "input"
    /\ rInput \in RefPayloads
    /\ rCtx \in RefContexts
    /\ rOut = NoResult
    /\ rOut2 = NoResult

\* batch.rs line 140: resolve_batch_refs(item.payload, &ref_context)
RefResolve ==
    /\ rPc = "input"
    /\ rOut' = ResolveBatchRefs(rInput, rCtx)
    /\ rPc' = "resolved"
    /\ UNCHANGED <<rInput, rCtx, rOut2>>
    /\ UNCHANGED notRef

\* the resolved payload is resolved once more against the same context
RefResolveAgain ==
    /\ rPc = "resolved"
    /\ rOut.ok
    /\ rOut2' = ResolveBatchRefs(rOut.v, rCtx)
    /\ rPc' = "again"
    /\ UNCHANGED <<rInput, rCtx, rOut>>
    /\ UNCHANGED notRef

RefNext == RefResolve \/ RefResolveAgain

(***************************************************************************)
(* text_search (MCP tool): paging over the chunk corpus with a cursor      *)
(***************************************************************************)
\* match_in_line: a literal search, on the lowercased line and pattern when
\* the search is not case sensitive; the lines of the model hold one word, so
\* whole_word finds the same lines
match_in_line(line, pattern, case_sensitive, whole_word) ==
    LET lower(t) == IF t = "Foo" THEN "foo" ELSE t
    IN  IF case_sensitive THEN line = pattern ELSE lower(line) = lower(pattern)

\* matches_file_pattern: no pattern, or a pattern without wildcards that the
\* path contains
matches_file_pattern(path, pattern) == pattern = "none" \/ path = pattern

\* sort_by start_line, then end_line (lines 203-207)
RECURSIVE sorted_chunks(_)
sorted_chunks(chunks) ==
    IF chunks = {} THEN <<>>
    ELSE LET first == CHOOSE c \in chunks : \A d \in chunks :
                          \/ c.start_line < d.start_line
                          \/ c.start_line = d.start_line /\ c.end_line <= d.end_line
         IN  <<first>> \o sorted_chunks(chunks \ {first})

\* the loops of search_in_corpus, lines 187-262, from the position pos on:
\* "file" is the head of the file loop, "chunk" the head of the chunk loop and
\* "line" the head of the line loop; outcome.seen is the set of the matches
\* pushed, since a match's column and text follow from its file and line
RECURSIVE search_in_corpus_from(_, _, _, _)
search_in_corpus_from(files, settings, pos, outcome) ==
    LET full == Len(outcome.matches) >= settings.max_results
        stop(chunk_index, line_offset) ==
            [outcome EXCEPT !.truncated = TRUE,
                            !.next_state = [some |-> TRUE, mode |-> "corpus",
                                            file_index |-> pos.file_index,
                                            chunk_index |-> chunk_index,
                                            line_offset |-> line_offset]]
        file == files[pos.file_index + 1]
        chunk_refs == sorted_chunks(file.chunks)
        chunk == chunk_refs[pos.chunk_index + 1]
        first_file == pos.file_index = settings.start_file_index
        start_chunk == IF first_file THEN settings.start_chunk_index ELSE 0
        line_start == IF first_file /\ pos.chunk_index = start_chunk
                      THEN settings.start_line_offset ELSE 0
        line == chunk.start_line + pos.line_offset
        item == [file |-> file.name, line |-> line, text |-> file.lines[line]]
    IN  CASE pos.at = "file" /\ pos.file_index >= Len(files) -> outcome
          [] pos.at = "file" /\ pos.file_index < Len(files) /\ full -> stop(0, 0)
          [] pos.at = "file" /\ pos.file_index < Len(files) /\ ~full
                /\ start_chunk > Len(chunk_refs) ->
                [outcome EXCEPT !.err = "invalid_cursor"]
          [] pos.at = "file" /\ pos.file_index < Len(files) /\ ~full
                /\ start_chunk <= Len(chunk_refs) ->
                search_in_corpus_from(files, settings,
                    [pos EXCEPT !.at = "chunk", !.chunk_index = start_chunk],
                    [outcome EXCEPT !.scanned_files = @ + 1])
          [] pos.at = "chunk" /\ pos.chunk_index >= Len(chunk_refs) ->
                search_in_corpus_from(files, settings,
                    [at |-> "file", file_index |-> pos.file_index + 1,
                     chunk_index |-> 0, line_offset |-> 0], outcome)
          [] pos.at = "chunk" /\ pos.chunk_index < Len(chunk_refs) /\ full ->
                stop(pos.chunk_index, 0)
          [] pos.at = "chunk" /\ pos.chunk_index < Len(chunk_refs) /\ ~full ->
                search_in_corpus_from(files, settings,
                    [pos EXCEPT !.at = "line", !.line_offset = line_start], outcome)
          [] pos.at = "line" /\ line > chunk.end_line ->
                search_in_corpus_from(files, settings,
                    [pos EXCEPT !.at = "chunk", !.chunk_index = @ + 1], outcome)
          [] pos.at = "line" /\ line <= chunk.end_line /\ full ->
                stop(pos.chunk_index, pos.line_offset)
          [] OTHER ->
                search_in_corpus_from(files, settings,
                    [pos EXCEPT !.line_offset = @ + 1],
                    IF match_in_line(item.text, settings.pattern,
                                     settings.case_sensitive, settings.whole_word)
                       /\ item \notin outcome.seen
                    THEN [outcome EXCEPT !.matches = Append(@, item),
                                         !.seen = @ \cup {item}]
                    ELSE outcome)

\* TextSearchOutcome::new, lines 47-57
NewOutcome ==
    [matches |-> <<>>, seen |-> {}, scanned_files |-> 0, truncated |-> FALSE,
     next_state |-> [some |-> FALSE], err |-> "none"]

\* search_in_corpus, lines 167-265; settings carries the start indices
search_in_corpus(corpus, settings) ==
    LET files == SelectSeq(corpus,
                     LAMBDA f : matches_file_pattern(f.name, settings.file_pattern))
    IN  IF settings.start_file_index > Len(files)
        THEN [NewOutcome EXCEPT !.err = "invalid_cursor"]
        ELSE search_in_corpus_from(files, settings,
                 [at |-> "file", file_index |-> settings.start_file_index,
                  chunk_index |-> 0, line_offset |-> 0], NewOutcome)

\* encode_cursor serializes the token and decode_cursor parses it back
\* (cursor.rs); the serialized form is the sequence of the token's fields, and
\* anything else does not parse
encode_cursor(token) ==
    <<token.v, token.tool, token.root, token.pattern, token.file_pattern,
      token.case_sensitive, token.whole_word, token.mode>>

decode_cursor(cursor) ==
    IF Len(cursor) = 8
    THEN [ok |-> TRUE,
          token |-> [v |-> cursor[1], tool |-> cursor[2], root |-> cursor[3],
                     pattern |-> cursor[4], file_pattern |-> cursor[5],
                     case_sensitive |-> cursor[6], whole_word |-> cursor[7],
                     mode |-> cursor[8]]]
    ELSE [ok |-> FALSE]

\* decode_cursor_mode that does not compare the pattern
decode_cursor_mode_any_pattern(request, root_display, settings) ==
    IF request.cursor = <<>> THEN [ok |-> TRUE, some |-> FALSE]
    ELSE IF ~decode_cursor(request.cursor).ok THEN [ok |-> FALSE]
    ELSE LET decoded == decode_cursor(request.cursor).token
         IN  IF \/ decoded.v # 1 \/ decoded.tool # "text_search"
                \/ decoded.root # root_display
                \/ decoded.file_pattern # settings.file_pattern
                \/ decoded.case_sensitive # settings.case_sensitive
                \/ decoded.whole_word # settings.whole_word
             THEN [ok |-> FALSE]
             ELSE [ok |-> TRUE, some |-> TRUE, mode |-> decoded.mode]

\* decode_cursor_mode, lines 75-114
decode_cursor_mode(request, root_display, settings) ==
    IF request.cursor = <<>> THEN [ok |-> TRUE, some |-> FALSE]
    ELSE IF ~decode_cursor(request.cursor).ok THEN [ok |-> FALSE]
    ELSE LET decoded == decode_cursor(request.cursor).token
         IN  IF \/ decoded.v # 1 \/ decoded.tool # "text_search"
                \/ decoded.root # root_display
                \/ decoded.pattern # settings.pattern
                \/ decoded.file_pattern # settings.file_pattern
                \/ decoded.case_sensitive # settings.case_sensitive
                \/ decoded.whole_word # settings.whole_word
             THEN [ok |-> FALSE]
             ELSE [ok |-> TRUE, some |-> TRUE, mode |-> decoded.mode]

\* str::trim on the patterns of the model
trim(pattern) == IF pattern = " foo " THEN "foo" ELSE pattern

\* text_search, lines 349-472, when the project has a chunk corpus; the
\* result is the error, or the matches with the next cursor (<<>>: none)
text_search(corpus, request) ==
    LET pattern == trim(request.pattern)
        max_results == IF request.max_results < 1 THEN 1
                       ELSE IF request.max_results > 1000 THEN 1000
                       ELSE request.max_results
        settings == [pattern |-> pattern, file_pattern |-> request.file_pattern,
                     max_results |-> max_results,
                     case_sensitive |-> request.case_sensitive,
                     whole_word |-> request.whole_word]
        cursor_mode == decode_cursor_mode(request, request.path, settings)
        start == IF cursor_mode.some
                 THEN [start_file_index |-> cursor_mode.mode.file_index,
                       start_chunk_index |-> cursor_mode.mode.chunk_index,
                       start_line_offset |-> cursor_mode.mode.line_offset]
                 ELSE [start_file_index |-> 0, start_chunk_index |-> 0,
                       start_line_offset |-> 0]
        outcome == search_in_corpus(corpus, settings @@ start)
        failed(error) == [error |-> error, matches |-> <<>>, truncated |-> FALSE,
                          next_cursor |-> <<>>]
    IN  IF ~cursor_mode.ok THEN failed("invalid_cursor")
        ELSE IF cursor_mode.some /\ cursor_mode.mode.mode # "corpus"
        THEN failed("invalid_cursor")
        ELSE IF outcome.err # "none" THEN failed(outcome.err)
        ELSE [error |-> "none", matches |-> outcome.matches,
              truncated |-> outcome.truncated,
              next_cursor |->
                  IF outcome.truncated
                  THEN encode_cursor([v |-> 1, tool |-> "text_search",
                           root |-> request.path, pattern |-> pattern,
                           file_pattern |-> request.file_pattern,
                           case_sensitive |-> request.case_sensitive,
                           whole_word |-> request.whole_word,
                           mode |-> [mode |-> "corpus",
                                     file_index |-> outcome.next_state.file_index,
                                     chunk_index |-> outcome.next_state.chunk_index,
                                     line_offset |-> outcome.next_state.line_offset]])
                  ELSE <<>>]

\* the corpora searched: a.rs has three lines, chunked in one span, in two
\* adjacent spans, in a span with a nested span (a type and its method) or in
\* two spans that share a line; b.rs has one line
MaxResults == 2
LineTexts == {"foo", "Foo", "bar"}
ChunkLayouts ==
    { {[start_line |-> 1, end_line |-> 3]},
      {[start_line |-> 1, end_line |-> 1], [start_line |-> 2, end_line |-> 3]},
      {[start_line |-> 1, end_line |-> 3], [start_line |-> 2, end_line |-> 3]},
      {[start_line |-> 1, end_line |-> 2], [start_line |-> 2, end_line |-> 3]} }
Corpora ==
    { << [name |-> "a.rs", chunks |-> layout, lines |-> lines],
         [name |-> "b.rs", chunks |-> {[start_line |-> 1, end_line |-> 1]},
          lines |-> <<last>>] >> :
        layout \in ChunkLayouts, lines \in [1..3 -> LineTexts], last \in LineTexts }
TextSearchRequests ==
    [path : {"/p", "/q"}, pattern : {"foo", "bar", " foo "},
     file_pattern : {"none", "a.rs"}, max_results : 0..MaxResults,
     case_sensitive : BOOLEAN, whole_word : BOOLEAN, cursor : {<<>>}]

TextSearchInit ==
    /\ callPc = "start"
    /\ callIn \in [corpus : Corpora,
                   request : {r \in TextSearchRequests :
                                 /\ r.path = "/p" /\ r.pattern # " foo "
                                 /\ r.max_results > 0 /\ ~r.whole_word}]
    /\ callOut = [pages |-> <<>>, request |-> callIn.request,
                  result |-> [error |-> "none", matches |-> <<>>,
                              truncated |-> FALSE, next_cursor |-> <<>>]]

\* the first call carries no cursor
TextSearchFirst ==
    /\ callPc = "start"
    /\ LET result == text_search(callIn.corpus, callIn.request)
       IN  callOut' = [pages |-> result.matches, request |-> callIn.request,
                       result |-> result]
    /\ callPc' = "paging"
    /\ UNCHANGED callIn
    /\ UNCHANGED notCall

\* the caller follows next_cursor with the parameters of the first call
TextSearchFollow ==
    /\ callPc = "paging"
    /\ callOut.result.next_cursor # <<>>
    /\ LET request == [callIn.request EXCEPT !.cursor = callOut.result.next_cursor]
           result == text_search(callIn.corpus, request)
       IN  callOut' = [pages |-> callOut.pages \o result.matches,
                       request |-> request, result |-> result]
    /\ UNCHANGED <<callPc, callIn>>
    /\ UNCHANGED notCall

\* the caller presents next_cursor with parameters that are not those of the
\* first call
TextSearchChanged ==
    /\ callPc = "paging"
    /\ callOut.result.next_cursor # <<>>
    /\ \E request \in TextSearchRequests :
        /\ \E field \in {"path", "pattern", "file_pattern", "max_results",
                         "case_sensitive", "whole_word"} :
               /\ request[field] # callIn.request[field]
               /\ request = [callIn.request EXCEPT ![field] = request[field]]
        /\ callOut' = [pages |-> callOut.pages,
                       request |-> [request EXCEPT !.cursor = callOut.result.next_cursor],
                       result |-> text_search(callIn.corpus,
                           [request EXCEPT !.cursor = callOut.result.next_cursor])]
    /\ callPc' = "changed"
    /\ UNCHANGED callIn
    /\ UNCHANGED notCall

TextSearchStep == TextSearchFirst \/ TextSearchFollow \/ TextSearchChanged

(***************************************************************************)
(* grep_context: the hunks of one file                                     *)
(***************************************************************************)
\* sort_unstable on line numbers
RECURSIVE sorted_lines(_)
sorted_lines(lines) ==
    IF lines = {} THEN <<>>
    ELSE LET first == CHOOSE l \in lines : \A m \in lines : l <= m
         IN  <<first>> \o sorted_lines(lines \ {first})

\* scan_match_lines_for_file, lines 187-226: matching holds the lines of the
\* file the regex matches; the scan stops at the match that brings
\* total_matches to max_matches
RECURSIVE scan_match_lines_for_file(_, _, _, _, _, _)
scan_match_lines_for_file(matching, file_len, file_resume_line, max_matches, line_no, scan) ==
    IF line_no > file_len \/ scan.hit_match_limit THEN scan
    ELSE scan_match_lines_for_file(matching, file_len, file_resume_line,
             max_matches, line_no + 1,
             IF line_no \notin matching THEN scan
             ELSE [match_lines |-> Append(scan.match_lines, line_no),
                   total_matches |-> IF line_no >= file_resume_line
                                     THEN scan.total_matches + 1
                                     ELSE scan.total_matches,
                   hit_match_limit |-> /\ line_no >= file_resume_line
                                       /\ scan.total_matches + 1 >= max_matches])

\* the loop of merge_grep_ranges, lines 29-43, over the sorted ranges
RECURSIVE merge_sorted_ranges(_, _)
merge_sorted_ranges(ranges, merged) ==
    IF ranges = <<>> THEN merged
    ELSE LET range == Head(ranges)
             last == merged[Len(merged)]
         IN  merge_sorted_ranges(Tail(ranges),
                 IF merged = <<>> THEN <<range>>
                 ELSE IF range.start_line <= last.end_line + 1
                 THEN [merged EXCEPT ![Len(merged)] =
                          [start_line |-> last.start_line,
                           end_line |-> IF last.end_line >= range.end_line
                                        THEN last.end_line ELSE range.end_line,
                           match_lines |-> last.match_lines \o range.match_lines]]
                 ELSE Append(merged, range))

\* merge_grep_ranges, lines 22-51: sort, merge, then sort and dedup the match
\* lines of each merged range
merge_grep_ranges(ranges) ==
    LET merged == merge_sorted_ranges(sorted_chunks(ranges), <<>>)
    IN  [i \in 1..Len(merged) |->
            [merged[i] EXCEPT !.match_lines =
                sorted_lines({merged[i].match_lines[k] :
                                 k \in 1..Len(merged[i].match_lines)})]]

\* the window of one match, lines 231-239
MatchWindow(ln, before, after) ==
    [start_line |-> IF ln - before < 1 THEN 1 ELSE ln - before,
     end_line |-> ln + after, match_lines |-> <<ln>>]

\* build_ranges_from_matches that leaves the windows as they are
build_ranges_unmerged(match_lines, before, after) ==
    sorted_chunks({MatchWindow(match_lines[i], before, after) :
                      i \in 1..Len(match_lines)})

\* build_ranges_from_matches, lines 228-243
build_ranges_from_matches(match_lines, before, after) ==
    merge_grep_ranges({MatchWindow(match_lines[i], before, after) :
                          i \in 1..Len(match_lines)})

\* build_hunks_for_file, lines 245-336; every line of the file holds one
\* character, so the first line of a hunk costs 1 of max_chars and each
\* further line 2.  acc: [hunks, used_chars, truncated, next_cursor_state]
RECURSIVE build_hunks_for_file(_, _, _, _, _, _, _)
build_hunks_for_file(acc, file_len, file_resume_line, ranges, max_hunks, max_chars, range_idx) ==
    LET range == ranges[range_idx + 1]
        range_start_line == IF range.start_line >= file_resume_line
                            THEN range.start_line ELSE file_resume_line
        last_readable == IF range.end_line <= file_len THEN range.end_line
                         ELSE file_len
        \* the lines taken are range_start_line .. end_line: the greatest
        \* count whose cost fits what is left of max_chars
        wanted == IF last_readable >= range_start_line
                  THEN last_readable - range_start_line + 1 ELSE 0
        fits(n) == n = 0 \/ acc.used_chars + (2 * n - 1) <= max_chars
        taken == CHOOSE n \in 0..wanted :
                     fits(n) /\ \A m \in 0..wanted : fits(m) => m <= n
        stop_due_to_budget == taken < wanted
        end_line == range_start_line + taken - 1
        hunk == [start_line |-> range_start_line, end_line |-> end_line,
                 match_lines |-> SelectSeq(range.match_lines,
                     LAMBDA ln : ln >= range_start_line /\ ln <= end_line)]
        pushed == [acc EXCEPT !.hunks = Append(@, hunk),
                              !.used_chars = IF taken = 0 THEN @ ELSE @ + 2 * taken - 1]
    IN  CASE range_idx >= Len(ranges) -> acc
          [] range_idx < Len(ranges) /\ range_start_line > range.end_line ->
                build_hunks_for_file(acc, file_len, file_resume_line, ranges,
                                     max_hunks, max_chars, range_idx + 1)
          [] range_idx < Len(ranges) /\ range_start_line <= range.end_line
                /\ Len(acc.hunks) >= max_hunks ->
                [acc EXCEPT !.truncated = "hunks",
                            !.next_cursor_state = <<range_start_line>>]
          [] range_idx < Len(ranges) /\ range_start_line <= range.end_line
                /\ Len(acc.hunks) < max_hunks /\ stop_due_to_budget /\ taken = 0 ->
                [acc EXCEPT !.truncated = "chars"]
          [] range_idx < Len(ranges) /\ range_start_line <= range.end_line
                /\ Len(acc.hunks) < max_hunks /\ stop_due_to_budget /\ taken > 0 ->
                [pushed EXCEPT !.truncated = "chars",
                               !.next_cursor_state = <<end_line + 1>>]
          [] OTHER ->
                build_hunks_for_file(pushed, file_len, file_resume_line, ranges,
                                     max_hunks, max_chars, range_idx + 1)

\* the files and requests: which lines match, the windows, where the call
\* resumes, and the limits (one of them tight, or none)
FileLines == 9
MaxWindow == 2
GrepLimits ==
    { [max_matches |-> 100, max_hunks |-> 100, max_chars |-> 100],
      [max_matches |-> 2, max_hunks |-> 100, max_chars |-> 100],
      [max_matches |-> 100, max_hunks |-> 1, max_chars |-> 100],
      [max_matches |-> 100, max_hunks |-> 100, max_chars |-> 6] }

GrepInit ==
    /\ callPc = "start"
    /\ callIn \in [matching : SUBSET (1..FileLines), before : 0..MaxWindow,
                   after : 0..MaxWindow, resume_line : {1, 4}, limits : GrepLimits]
    /\ callOut = <<>>

\* compute_grep_context_result, lines 384-501, for the one candidate file: the
\* scan (hit_match_limit sets truncated, 432-435), the ranges, the hunks; the
\* result holds a next_cursor when next_cursor_state is set (348-357)
compute_grep_context_result(matching, before, after, resume_line, limits) ==
    LET scan == scan_match_lines_for_file(matching, FileLines, resume_line,
                    limits.max_matches, 1,
                    [match_lines |-> <<>>, total_matches |-> 0,
                     hit_match_limit |-> FALSE])
        ranges == build_ranges_from_matches(scan.match_lines, before, after)
    IN  build_hunks_for_file(
            [hunks |-> <<>>, used_chars |-> 0,
             truncated |-> IF scan.hit_match_limit THEN "matches" ELSE "no",
             next_cursor_state |-> <<>>],
            FileLines, resume_line, ranges, limits.max_hunks, limits.max_chars, 0)

\* one call of the tool
GrepContext ==
    /\ callPc = "start"
    /\ callOut' = compute_grep_context_result(callIn.matching, callIn.before,
                       callIn.after, callIn.resume_line, callIn.limits)
    /\ callPc' = "done"
    /\ UNCHANGED callIn
    /\ UNCHANGED notCall

\* the tool called page after page: callOut holds the pages returned so far
GrepFirstPage ==
    /\ callPc = "start"
    /\ callOut' = <<compute_grep_context_result(callIn.matching, callIn.before,
                         callIn.after, callIn.resume_line, callIn.limits)>>
    /\ callPc' = "paging"
    /\ UNCHANGED callIn
    /\ UNCHANGED notCall

\* the caller follows next_cursor: resume_line is the line of the cursor
GrepNextPage ==
    /\ callPc = "paging"
    /\ callOut[Len(callOut)].next_cursor_state # <<>>
    /\ callOut' = Append(callOut,
                      compute_grep_context_result(callIn.matching, callIn.before,
                          callIn.after, callOut[Len(callOut)].next_cursor_state[1],
                          callIn.limits))
    /\ UNCHANGED <<callPc, callIn>>
    /\ UNCHANGED notCall

GrepPages ==
    \/ GrepFirstPage
    \/ GrepNextPage

(***************************************************************************)
(* graph: get_related_nodes and the context assembler                      *)
(***************************************************************************)
\* relationship_rank, lines 50-59
relationship_rank(rel) ==
    CASE rel = "Calls" -> 0 [] rel = "Uses" -> 1 [] rel = "Contains" -> 2
      [] rel = "Extends" -> 3 [] rel = "Imports" -> 4 [] rel = "TestedBy" -> 5

\* compare_relationship_paths, lines 61-71: -1, 0 or 1
RECURSIVE compare_relationship_paths(_, _)
compare_relationship_paths(a, b) ==
    IF a = <<>> \/ b = <<>>
    THEN IF Len(a) < Len(b) THEN -1 ELSE IF Len(a) > Len(b) THEN 1 ELSE 0
    ELSE IF relationship_rank(Head(a)) < relationship_rank(Head(b)) THEN -1
    ELSE IF relationship_rank(Head(a)) > relationship_rank(Head(b)) THEN 1
    ELSE compare_relationship_paths(Tail(a), Tail(b))

\* calculate_relevance, lines 176-196, as the fraction num / den of tenths:
\* (1 / (distance + 1)) * (sum of the weights / path length); for the graphs
\* of the model different fractions are different f32 values and equal
\* fractions are computed from the same terms
RECURSIVE calculate_relevance(_, _)
calculate_relevance(distance, path) ==
    IF path = <<>> THEN [num |-> 0, den |-> distance + 1]
    ELSE LET rest == calculate_relevance(distance, Tail(path))
             w == CASE Head(path) = "Calls" -> 10 [] Head(path) = "Uses" -> 8
                    [] Head(path) = "Contains" -> 7 [] Head(path) = "Imports" -> 5
                    [] Head(path) = "Extends" -> 6 [] Head(path) = "TestedBy" -> 4
         IN  [num |-> rest.num + w,
              den |-> (distance + 1) * (IF Len(path) > 1 THEN Len(path) ELSE 1)]

\* graph.edges(current): the outgoing edges, the one added last first
RECURSIVE edges_of(_, _)
edges_of(edges, current) ==
    IF edges = <<>> THEN <<>>
    ELSE IF Head(edges).source = current
    THEN edges_of(Tail(edges), current) \o <<Head(edges)>>
    ELSE edges_of(Tail(edges), current)

\* the neighbours of current that lines 70-78 push on the queue
RECURSIVE pushed_neighbours(_, _, _, _)
pushed_neighbours(out_edges, visited, depth, path) ==
    IF out_edges = <<>> THEN <<>>
    ELSE (IF Head(out_edges).target \notin visited
          THEN <<[node |-> Head(out_edges).target, depth |-> depth + 1,
                  path |-> Append(path, Head(out_edges).relationship)]>>
          ELSE <<>>)
         \o pushed_neighbours(Tail(out_edges), visited, depth, path)

\* get_related_nodes, graph.rs lines 49-83: queue is a Vec used as a stack
RECURSIVE get_related_nodes(_, _, _, _, _, _)
get_related_nodes(edges, node, max_depth, queue, visited, result) ==
    IF queue = <<>> THEN result
    ELSE LET top == queue[Len(queue)]
             rest == SubSeq(queue, 1, Len(queue) - 1)
         IN  IF top.depth > max_depth \/ top.node \in visited
             THEN get_related_nodes(edges, node, max_depth, rest, visited, result)
             ELSE get_related_nodes(edges, node, max_depth,
                      IF top.depth < max_depth
                      THEN rest \o pushed_neighbours(edges_of(edges, top.node),
                                       visited \cup {top.node}, top.depth, top.path)
                      ELSE rest,
                      visited \cup {top.node},
                      IF top.node # node THEN Append(result, top) ELSE result)

\* the chunk of each node: nodes 3 and 4 are two symbols of one chunk
NodeChunk(n) ==
    CASE n = 0 -> [file_path |-> "main.rs", start_line |-> 1, end_line |-> 10]
      [] n = 1 -> [file_path |-> "a.rs", start_line |-> 5, end_line |-> 6]
      [] n = 2 -> [file_path |-> "b.rs", start_line |-> 1, end_line |-> 2]
      [] OTHER -> [file_path |-> "b.rs", start_line |-> 3, end_line |-> 4]

\* str::cmp on the file names of the model: -1, 0 or 1
CmpPath(a, b) ==
    LET rank(p) == CASE p = "a.rs" -> 1 [] p = "b.rs" -> 2 [] OTHER -> 3
    IN  IF rank(a) < rank(b) THEN -1 ELSE IF rank(a) > rank(b) THEN 1 ELSE 0

CmpInt(a, b) == IF a < b THEN -1 ELSE IF a > b THEN 1 ELSE 0

\* a comparator that stops at the chunk's end line
CompareRelated_no_path(a, b) ==
    LET by_relevance == CmpInt(b.relevance_score.num * a.relevance_score.den,
                               a.relevance_score.num * b.relevance_score.den)
    IN  IF by_relevance # 0 THEN by_relevance
        ELSE IF a.distance # b.distance THEN CmpInt(a.distance, b.distance)
        ELSE IF a.chunk.file_path # b.chunk.file_path
        THEN CmpPath(a.chunk.file_path, b.chunk.file_path)
        ELSE IF a.chunk.start_line # b.chunk.start_line
        THEN CmpInt(a.chunk.start_line, b.chunk.start_line)
        ELSE CmpInt(a.chunk.end_line, b.chunk.end_line)

\* the comparator of related_chunks.sort_by, assembler.rs lines 128-136
CompareRelated(a, b) ==
    LET by_relevance == CmpInt(b.relevance_score.num * a.relevance_score.den,
                               a.relevance_score.num * b.relevance_score.den)
    IN  IF by_relevance # 0 THEN by_relevance
        ELSE IF a.distance # b.distance THEN CmpInt(a.distance, b.distance)
        ELSE IF a.chunk.file_path # b.chunk.file_path
        THEN CmpPath(a.chunk.file_path, b.chunk.file_path)
        ELSE IF a.chunk.start_line # b.chunk.start_line
        THEN CmpInt(a.chunk.start_line, b.chunk.start_line)
        ELSE IF a.chunk.end_line # b.chunk.end_line
        THEN CmpInt(a.chunk.end_line, b.chunk.end_line)
        ELSE compare_relationship_paths(a.relationship, b.relationship)

\* sort_by: a stable sort, here by insertion
RECURSIVE sort_related(_)
sort_related(chunks) ==
    IF chunks = <<>> THEN <<>>
    ELSE LET sorted == sort_related(SubSeq(chunks, 1, Len(chunks) - 1))
             item == chunks[Len(chunks)]
             keep == Cardinality({i \in 1..Len(sorted) :
                                     CompareRelated(sorted[i], item) <= 0})
             \* sorted is ordered, so the entries not after item are a prefix
         IN  SubSeq(sorted, 1, keep) \o <<item>> \o SubSeq(sorted, keep + 1, Len(sorted))

\* assemble_for_symbol, assembler.rs lines 80-150, for the primary node 0
assemble_for_symbol(edges, max_depth) ==
    LET related_nodes == get_related_nodes(edges, 0, max_depth,
                             <<[node |-> 0, depth |-> 0, path |-> <<>>]>>, {}, <<>>)
    IN  sort_related([i \in 1..Len(related_nodes) |->
            [chunk |-> NodeChunk(related_nodes[i].node),
             relationship |-> related_nodes[i].path,
             distance |-> related_nodes[i].depth,
             relevance_score |-> calculate_relevance(related_nodes[i].depth,
                                                     related_nodes[i].path)]])

\* the graphs: every set of at most MaxEdges edges among the nodes 0..3, and
\* the graph in which the nodes 3 and 4 of one chunk are reached at the same
\* distance by [Calls, Uses] and by [Uses, Calls]; the edges in every order of
\* insertion
MaxEdges == 3
EdgeChoices ==
    [source : 0..2, target : 1..3, relationship : {"Calls", "Uses"}]
TwoPathsGraph ==
    { [source |-> 0, target |-> 1, relationship |-> "Calls"],
      [source |-> 1, target |-> 3, relationship |-> "Uses"],
      [source |-> 0, target |-> 2, relationship |-> "Uses"],
      [source |-> 2, target |-> 4, relationship |-> "Calls"] }
InsertionOrders(edgeSet) ==
    {order \in [1..Cardinality(edgeSet) -> edgeSet] :
        \A i, j \in 1..Cardinality(edgeSet) : i # j => order[i] # order[j]}
Graphs ==
    UNION { InsertionOrders(edgeSet) :
              edgeSet \in {es \in SUBSET {e \in EdgeChoices : e.source < e.target} :
                              Cardinality(es) <= MaxEdges} \cup {TwoPathsGraph} }

AssembleInit ==
    /\ callPc = "start"
    /\ callIn \in [edges : Graphs, max_depth : {1, 2}]
    /\ callOut = <<>>

\* the context is assembled from the graph, and from the graph built with two
\* edges added in the other order
Assemble ==
    /\ callPc = "start"
    /\ \E k \in 0..(Len(callIn.edges) - 1) :
         LET other == IF k = 0 THEN callIn.edges
                      ELSE [callIn.edges EXCEPT ![k] = callIn.edges[k + 1],
                                                ![k + 1] = callIn.edges[k]]
         IN  callOut' = [related_chunks |-> assemble_for_symbol(callIn.edges,
                                                callIn.max_depth),
                         other_edges |-> other,
                         other_related_chunks |-> assemble_for_symbol(other,
                                                      callIn.max_depth)]
    /\ callPc' = "done"
    /\ UNCHANGED callIn
    /\ UNCHANGED notCall

\* CodeGraph::get_related_nodes(node, max_depth) on the graphs of the
\* assembler, from node 0
RelatedNodes ==
    /\ callPc = "start"
    /\ callOut' = get_related_nodes(callIn.edges, 0, callIn.max_depth,
                                    <<[node |-> 0, depth |-> 0, path |-> <<>>]>>, {}, <<>>)
    /\ callPc' = "done"
    /\ UNCHANGED callIn
    /\ UNCHANGED notCall

(***************************************************************************)
(* Idle values of the parts a specification does not exercise              *)
(***************************************************************************)
CallOff ==
    /\ callPc = "off"
    /\ callIn = <<>>
    /\ callOut = <<>>

RefOff ==
    /\ rPc = "off"
    /\ rInput = Null
    /\ rCtx = Null
    /\ rOut = NoResult
    /\ rOut2 = NoResult

BatchOff ==
    /\ bPc = "off"
    /\ bCfg = [max_chars |-> [some |-> FALSE, v |-> 0], stop_on_error |-> FALSE,
               project |-> "none", n |-> 0]
    /\ output = NewOutput(0, FALSE)
    /\ ref_context = [project |-> "none", items |-> [i \in ItemIds |-> NoRec]]
    /\ seen_ids = {}
    /\ inferred_project = "none"
    /\ gate = FALSE
    /\ processed = <<>>
    /\ overflow = [hit |-> FALSE, before |-> <<>>, item |-> error_item("", "none")]

McpOff ==
    /\ mcpPc = "off"
    /\ mcpOut = NewOutput(0, FALSE)

(***************************************************************************)
(* Watcher: DebounceState                                                  *)
(***************************************************************************)
DEFAULT_ALERT_REASON == "fs_event"

\* Option<Instant>
None == [some |-> FALSE, t |-> 0]
Some(t) == [some |-> TRUE, t |-> t]

\* StreamingIndexerConfig values a watcher is started with, in units of
\* 750 ms: the default (750 ms, 3 s) and a slower debounce (1.5 s, 3 s)
WatcherConfigs == { [debounce |-> 1, max_batch_wait |-> 4],
                    [debounce |-> 2, max_batch_wait |-> 4] }

\* DebounceState::new: dedup_window is 750 ms
DEDUP_WINDOW == 1

DebounceNew ==
    [dirty |-> FALSE, pending |-> 0, last_event |-> None, first_event |-> None,
     reason |-> "none", force_immediate |-> FALSE, recent_paths |-> <<>>]

record_event(st, count, reason, t) ==
    [st EXCEPT !.pending = @ + (IF count > 1 THEN count ELSE 1),
               !.reason = reason,
               !.last_event = Some(t),
               !.first_event = IF @.some THEN @ ELSE Some(t),
               !.dirty = TRUE]

\* force_run that forgets to mark the state dirty
force_run_clean(st, reason) ==
    [st EXCEPT !.pending = @ + 1,
               !.reason = reason,
               !.force_immediate = TRUE]

\* force_run that forgets force_immediate
force_run_lazy(st, reason) ==
    [st EXCEPT !.pending = @ + 1,
               !.reason = reason,
               !.dirty = TRUE]

force_run(st, reason) ==
    [st EXCEPT !.pending = @ + 1,
               !.reason = reason,
               !.force_immediate = TRUE,
               !.dirty = TRUE]

should_run(st) == st.dirty

\* next_deadline that ignores max_batch
next_deadline_uncapped(st, cfg, t) ==
    IF ~st.dirty THEN None
    ELSE IF st.force_immediate THEN Some(t)
    ELSE IF st.last_event.some THEN Some(st.last_event.t + cfg.debounce) ELSE None

next_deadline(st, cfg, t) ==
    IF ~st.dirty THEN None
    ELSE IF st.force_immediate THEN Some(t)
    ELSE LET byLast == IF st.last_event.some
                       THEN Some(st.last_event.t + cfg.debounce) ELSE None
         IN IF st.first_event.some
            THEN LET forced == st.first_event.t + cfg.max_batch_wait
                 IN IF byLast.some /\ ~(forced < byLast.t) THEN byLast ELSE Some(forced)
            ELSE byLast

reset(st) == DebounceNew

\* result [st, new]
record_path_if_new(st, path, t) ==
    LET Recent(e) == t - e.ts <= DEDUP_WINDOW
        retained == SelectSeq(st.recent_paths, Recent)
        already == \E i \in 1..Len(retained) : retained[i].path = path
    IN IF ~already
       THEN [st |-> [st EXCEPT !.recent_paths = Append(retained, [path |-> path, ts |-> t])],
             new |-> TRUE]
       ELSE [st |-> [st EXCEPT !.recent_paths = retained], new |-> FALSE]

(***************************************************************************)
(* Watcher: event filter                                                   *)
(***************************************************************************)
IGNORED == {".git", ".hg", ".svn", ".context-finder", "target", "node_modules",
            "dist", "build", "out", "datasets"}

\* the entries of IGNORED that the (lower-cased) component starts with, for the
\* component names the model uses
IgnoredPrefixesOf(name) ==
    CASE name = "target" -> {"target"}
      [] name \in {".git", ".github", ".gitignore"} -> {".git"}
      [] name = "output" -> {"out"}
      [] name = "node_modules" -> {"node_modules"}
      [] OTHER -> {}

IsJson(name) == name \in {"x.json"}

\* a path is [inside, comps]: whether strip_prefix(root) succeeds, and the
\* components below the root
is_relevant_path(path) ==
    IF ~path.inside THEN TRUE
    ELSE LET comps == path.comps
             n == Len(comps)
         IN /\ ~(n >= 1 /\ IgnoredPrefixesOf(comps[1]) \cap IGNORED # {})
            /\ ~(n >= 2 /\ comps[1] = "bench" /\ comps[2] = "logs" /\ IsJson(comps[n]))
            /\ ~(n >= 1 /\ comps[n] = ".gitignore")

PathA == [inside |-> TRUE, comps |-> <<"src", "a.rs">>]
PathIgnored == [inside |-> TRUE, comps |-> <<"target", "x.o">>]

\* notify::Result<Event> values the fs watcher delivers
FsEvents ==
    { [ok |-> TRUE, paths |-> <<PathIgnored, PathA>>],
      [ok |-> TRUE, paths |-> <<PathIgnored>>],
      [ok |-> TRUE, paths |-> <<>>],
      [ok |-> FALSE, paths |-> <<>>] }

\* the loop over evt.paths of handle_event: result [st, relevant]
RECURSIVE ScanPaths(_, _, _, _)
ScanPaths(paths, st, relevant, t) ==
    IF paths = <<>> THEN [st |-> st, relevant |-> relevant]
    ELSE IF is_relevant_path(Head(paths))
         THEN LET r == record_path_if_new(st, Head(paths), t)
              IN ScanPaths(Tail(paths), r.st, IF r.new THEN relevant + 1 ELSE relevant, t)
         ELSE ScanPaths(Tail(paths), st, relevant, t)

\* result [st, changed]
handle_event(event, st, t) ==
    IF ~event.ok THEN [st |-> st, changed |-> FALSE]
    ELSE IF event.paths = <<>>
         THEN [st |-> record_event(st, 1, DEFAULT_ALERT_REASON, t), changed |-> TRUE]
         ELSE LET scan == ScanPaths(event.paths, st, 0, t)
              IN IF scan.relevant > 0
                 THEN [st |-> record_event(scan.st, scan.relevant, DEFAULT_ALERT_REASON, t),
                       changed |-> TRUE]
                 ELSE [st |-> scan.st, changed |-> FALSE]

\* an event names a path the ignore set does not cover (or names none)
OnRelevantPath(event) ==
    /\ event.ok
    /\ \/ event.paths = <<>>
       \/ \E i \in 1..Len(event.paths) : is_relevant_path(event.paths[i])

(***************************************************************************)
(* Watcher: handle_event on the paths a project holds                      *)
(***************************************************************************)
ProjectPaths ==
    { [inside |-> TRUE, comps |-> comps] :
        comps \in { <<"src", "a.rs">>, <<"target", "x.o">>, <<".git", "HEAD">>,
                    <<".github", "ci.yml">>, <<"output", "a.rs">>,
                    <<"src", "node_modules", "x.js">>, <<"src", ".gitignore">>,
                    <<"bench", "logs", "x.json">>, <<"bench", "a.rs">> } }
    \cup {[inside |-> FALSE, comps |-> <<"target", "x.o">>]}

FilterInit ==
    /\ callPc = "start"
    /\ callIn \in { [ok |-> TRUE, paths |-> <<p>>] : p \in ProjectPaths }
             \cup { [ok |-> TRUE, paths |-> <<p, q>>] : p, q \in ProjectPaths }
             \cup { [ok |-> TRUE, paths |-> <<>>], [ok |-> FALSE, paths |-> <<>>] }
    /\ callOut = <<>>

\* the loop receives the event with a fresh DebounceState
FilterEvent ==
    /\ callPc = "start"
    /\ callOut' = handle_event(callIn, DebounceNew, 0)
    /\ callPc' = "done"
    /\ UNCHANGED callIn
    /\ UNCHANGED notCall

(***************************************************************************)
(* Watcher: the index loop, its channels and its handles                   *)
(***************************************************************************)
WatcherInit ==
    /\ now = 0
    /\ wCfg \in WatcherConfigs
    /\ wPc = "select"
    /\ state = DebounceNew
    /\ health = [indexing |-> FALSE, pending_events |-> 0]
    /\ event_rx = <<>>
    /\ command_rx = <<>>
    /\ handles = 1
    /\ fsLeft = MaxFsEvents
    /\ trigLeft = MaxTriggers
    /\ running = 0
    /\ lastRecv = None
    /\ trigAt = None
    /\ cycleAt = None
    /\ windowFirst = None

LoopAlive == wPc \in {"select", "indexing"}

\* the third branch of select!: its precondition holds and sleep_until(deadline)
\* has completed
TimerDue ==
    LET deadline == next_deadline(state, wCfg, now)
    IN should_run(state) /\ deadline.some /\ deadline.t <= now

\* the notify callback: blocking_send of an event into the channel
FsEvent ==
    /\ handles >= 1
    /\ LoopAlive
    /\ fsLeft > 0
    /\ Len(event_rx) < EventCap
    /\ \E event \in FsEvents : event_rx' = Append(event_rx, event)
    /\ fsLeft' = fsLeft - 1
    /\ UNCHANGED <<now, wCfg, wPc, state, health, command_rx, handles, trigLeft,
                   running, lastRecv, trigAt, cycleAt, windowFirst>>
    /\ UNCHANGED notWatcher

\* StreamingIndexer::trigger: command_tx.send(Trigger).await
Trigger ==
    /\ handles >= 1
    /\ LoopAlive
    /\ trigLeft > 0
    /\ Len(command_rx) < CommandCap
    /\ command_rx' = Append(command_rx, "trigger")
    /\ trigLeft' = trigLeft - 1
    /\ UNCHANGED <<now, wCfg, wPc, state, health, event_rx, handles, fsLeft,
                   running, lastRecv, trigAt, cycleAt, windowFirst>>
    /\ UNCHANGED notWatcher

\* #[derive(Clone)] on the handle
CloneHandle ==
    /\ handles >= 1
    /\ handles < MaxHandles
    /\ handles' = handles + 1
    /\ UNCHANGED <<now, wCfg, wPc, state, health, event_rx, command_rx, fsLeft, trigLeft,
                   running, lastRecv, trigAt, cycleAt, windowFirst>>
    /\ UNCHANGED notWatcher

\* Drop: the last handle does command_tx.try_send(Shutdown), which is lost
\* when the channel is full
DropHandle ==
    /\ handles >= 1
    /\ handles' = handles - 1
    /\ command_rx' = IF handles = 1 /\ LoopAlive /\ Len(command_rx) < CommandCap
                     THEN Append(command_rx, "shutdown")
                     ELSE command_rx
    /\ UNCHANGED <<now, wCfg, wPc, state, health, event_rx, fsLeft, trigLeft,
                   running, lastRecv, trigAt, cycleAt, windowFirst>>
    /\ UNCHANGED notWatcher

\* select! branch 1: Some(event) = event_rx.recv()
RecvEvent ==
    /\ wPc = "select"
    /\ event_rx # <<>>
    /\ LET event == Head(event_rx)
           r == handle_event(event, state, now)
       IN /\ state' = r.st
          /\ health' = IF r.changed
                       THEN [health EXCEPT !.pending_events = r.st.pending]
                       ELSE health
          /\ lastRecv' = IF OnRelevantPath(event) THEN Some(now) ELSE lastRecv
          /\ windowFirst' = IF r.changed /\ ~windowFirst.some THEN Some(now) ELSE windowFirst
    /\ event_rx' = Tail(event_rx)
    /\ UNCHANGED <<now, wCfg, wPc, command_rx, handles, fsLeft, trigLeft,
                   running, trigAt, cycleAt>>
    /\ UNCHANGED notWatcher

\* select! branch 2: Some(cmd) = command_rx.recv(), cmd = Trigger
RecvTrigger ==
    /\ wPc = "select"
    /\ command_rx # <<>>
    /\ Head(command_rx) = "trigger"
    /\ state' = force_run(state, "manual")
    /\ health' = [health EXCEPT !.pending_events = state'.pending]
    /\ trigAt' = IF trigAt.some THEN trigAt ELSE Some(now)
    /\ command_rx' = Tail(command_rx)
    /\ UNCHANGED <<now, wCfg, wPc, event_rx, handles, fsLeft, trigLeft,
                   running, lastRecv, cycleAt, windowFirst>>
    /\ UNCHANGED notWatcher

\* select! branch 2: cmd = Shutdown => break
RecvShutdown ==
    /\ wPc = "select"
    /\ command_rx # <<>>
    /\ Head(command_rx) = "shutdown"
    /\ wPc' = "stopped"
    /\ command_rx' = Tail(command_rx)
    /\ UNCHANGED <<now, wCfg, state, health, event_rx, handles, fsLeft, trigLeft,
                   running, lastRecv, trigAt, cycleAt, windowFirst>>
    /\ UNCHANGED notWatcher

\* select! branch 3 up to the await of run_index_cycle
CycleStart ==
    /\ wPc = "select"
    /\ TimerDue
    /\ wPc' = "indexing"
    /\ health' = [health EXCEPT !.indexing = TRUE]
    /\ state' = [state EXCEPT !.reason = "none"]
    /\ running' = running + 1
    /\ cycleAt' = Some(now)
    /\ trigAt' = None
    /\ UNCHANGED <<now, wCfg, event_rx, command_rx, handles, fsLeft, trigLeft, lastRecv, windowFirst>>
    /\ UNCHANGED notWatcher

\* run_index_cycle returns (Ok or Err: both arms clear health.indexing and
\* health.pending_events), then state.reset()
CycleFinish ==
    /\ wPc = "indexing"
    /\ health' = [indexing |-> FALSE, pending_events |-> 0]
    /\ state' = reset(state)
    /\ wPc' = "select"
    /\ running' = running - 1
    /\ lastRecv' = None
    /\ cycleAt' = None
    /\ windowFirst' = None
    /\ UNCHANGED <<now, wCfg, event_rx, command_rx, handles, fsLeft, trigLeft, trigAt>>
    /\ UNCHANGED notWatcher

\* select! with every branch disabled (both channels closed and drained, timer
\* precondition false) and no else branch: the spawned future panics
SelectPanics ==
    /\ wPc = "select"
    /\ handles = 0
    /\ event_rx = <<>>
    /\ command_rx = <<>>
    /\ ~(should_run(state) /\ next_deadline(state, wCfg, now).some)
    /\ wPc' = "panicked"
    /\ UNCHANGED <<now, wCfg, state, health, event_rx, command_rx, handles, fsLeft,
                   trigLeft, running, lastRecv, trigAt, cycleAt, windowFirst>>
    /\ UNCHANGED notWatcher

\* time passes; a loop parked in select! takes a ready branch first
Tick ==
    /\ now < MaxTime
    /\ wPc = "select" => (event_rx = <<>> /\ command_rx = <<>> /\ ~TimerDue)
    /\ now' = now + 1
    /\ UNCHANGED <<wCfg, wPc, state, health, event_rx, command_rx, handles, fsLeft,
                   trigLeft, running, lastRecv, trigAt, cycleAt, windowFirst>>
    /\ UNCHANGED notWatcher

WatcherNext ==
    \/ FsEvent
    \/ Trigger
    \/ CloneHandle
    \/ DropHandle
    \/ RecvEvent
    \/ RecvTrigger
    \/ RecvShutdown
    \/ CycleStart
    \/ CycleFinish
    \/ SelectPanics
    \/ Tick

WatcherOff ==
    /\ now = 0
    /\ wCfg = [debounce |-> 1, max_batch_wait |-> 4]
    /\ wPc = "off"
    /\ state = DebounceNew
    /\ health = [indexing |-> FALSE, pending_events |-> 0]
    /\ event_rx = <<>>
    /\ command_rx = <<>>
    /\ handles = 0
    /\ fsLeft = 0
    /\ trigLeft = 0
    /\ running = 0
    /\ lastRecv = None
    /\ trigAt = None
    /\ cycleAt = None
    /\ windowFirst = None

(***************************************************************************)
(* Indexer: MultiModelProjectIndexer::index_models on one project root     *)
(***************************************************************************)
Files == {"f1", "f2"}

\* who calls index_models: the index command of the MCP router and the
\* watcher's run_multi_model_index_cycle
Runners == {"command", "watcher"}

\* a map file -> value with 0 for "no entry"
EmptyMap == [f \in Files |-> 0]
Keys(m) == {f \in Files : m[f] # 0}

NoLocals ==
    [force_full |-> FALSE, live |-> {}, corpus |-> EmptyMap, corpus_full_rebuild |-> FALSE,
     current_mtimes |-> EmptyMap, incremental |-> FALSE, changed_files |-> {},
     union_paths |-> {}, processed_by_rel |-> EmptyMap, processed_errs |-> {},
     \* index_with_mode only: the store in memory, existing_mtimes.is_some(),
     \* existing_mtimes, corpus_dirty
     store |-> EmptyMap, has_mtimes |-> FALSE, existing_mtimes |-> EmptyMap,
     corpus_dirty |-> FALSE,
     \* history: a project file was written or deleted since this run's scan
     touched |-> FALSE]

\* compute_project_watermark, filesystem variant: the number of files and the
\* newest mtime among them
compute_project_watermark(d) ==
    LET present == {f \in Files : d[f].exists}
    IN [file_count |-> Cardinality(present),
        max_mtime |-> IF present = {} THEN 0
                      ELSE CHOOSE m \in {d[f].mtime : f \in present} :
                               \A f \in present : d[f].mtime <= m]

NoWatermark == [exists |-> FALSE, mark |-> [file_count |-> 0, max_mtime |-> 0]]
NoRun == [result |-> "none", stable |-> FALSE]

\* history kept when the project files change: the runs in progress have
\* seen another disk, and so has the last finished run
Touch(loc) ==
    [r \in Runners |-> IF iPc[r] = "idle" THEN loc[r] ELSE [loc[r] EXCEPT !.touched = TRUE]]

IndexInit ==
    /\ disk \in [Files -> { [exists |-> TRUE, mtime |-> 1, content |-> 1],
                            [exists |-> FALSE, mtime |-> 0, content |-> 0] }]
    /\ corpusDisk = [exists |-> FALSE, chunks |-> EmptyMap]
    /\ storeDisk = [exists |-> FALSE, chunks |-> EmptyMap]
    /\ mtimesDisk = [exists |-> FALSE, m |-> EmptyMap]
    /\ iPc = [r \in Runners |-> "idle"]
    /\ iLoc = [r \in Runners |-> NoLocals]
    /\ editsLeft = MaxEdits
    /\ watermarkDisk = NoWatermark
    /\ lastRun = NoRun

\* a file is written (created or modified): new content, new mtime
EditFile ==
    /\ editsLeft > 0
    /\ \E f \in Files :
        disk' = [disk EXCEPT ![f] = [exists |-> TRUE, mtime |-> @.mtime + 1,
                                     content |-> @.content + 1]]
    /\ editsLeft' = editsLeft - 1
    /\ iLoc' = Touch(iLoc)
    /\ lastRun' = [lastRun EXCEPT !.stable = FALSE]
    /\ UNCHANGED <<corpusDisk, storeDisk, mtimesDisk, iPc, watermarkDisk>>
    /\ UNCHANGED notIndex

DeleteFile ==
    /\ editsLeft > 0
    /\ \E f \in Files :
        /\ disk[f].exists
        /\ disk' = [disk EXCEPT ![f].exists = FALSE]
    /\ editsLeft' = editsLeft - 1
    /\ iLoc' = Touch(iLoc)
    /\ lastRun' = [lastRun EXCEPT !.stable = FALSE]
    /\ UNCHANGED <<corpusDisk, storeDisk, mtimesDisk, iPc, watermarkDisk>>
    /\ UNCHANGED notIndex

\* index_models lines 563-599: scan the files, load the corpus
IndexScan ==
    /\ \E r \in Runners, full \in BOOLEAN :
        /\ iPc[r] = "idle"
        /\ r = "watcher" => ~full
        /\ LET rebuild == full \/ ~corpusDisk.exists
           IN iLoc' = [iLoc EXCEPT ![r] =
                 [NoLocals EXCEPT !.force_full = full,
                                  !.live = {f \in Files : disk[f].exists},
                                  !.corpus = IF rebuild THEN EmptyMap ELSE corpusDisk.chunks,
                                  !.corpus_full_rebuild = rebuild]]
        /\ iPc' = [iPc EXCEPT ![r] = "scanned"]
    /\ UNCHANGED <<disk, corpusDisk, storeDisk, mtimesDisk, editsLeft, watermarkDisk, lastRun>>
    /\ UNCHANGED notIndex

\* ChangedFiles with `mtime >= old` in place of `mtime > old`
ChangedFiles_not_older(fresh, current, existing) ==
    IF fresh THEN Keys(current)
    ELSE {f \in Keys(current) : existing[f] = 0 \/ current[f] >= existing[f]}

\* the files a plan of index_models treats as changed
ChangedFiles(fresh, current, existing) ==
    IF fresh THEN Keys(current)
    ELSE {f \in Keys(current) : existing[f] = 0 \/ current[f] > existing[f]}

\* lines 601-688: current mtimes, the model's persisted mtimes, changed files
IndexPlan ==
    /\ \E r \in Runners :
        /\ iPc[r] = "scanned"
        /\ LET loc == iLoc[r]
               current == [f \in Files |->
                             IF f \in loc.live /\ disk[f].exists THEN disk[f].mtime ELSE 0]
               incremental == ~loc.force_full /\ ~loc.corpus_full_rebuild /\ storeDisk.exists
               existing == IF incremental /\ mtimesDisk.exists THEN mtimesDisk.m ELSE EmptyMap
               changed == ChangedFiles(loc.force_full \/ loc.corpus_full_rebuild
                                          \/ ~storeDisk.exists, current, existing)
           IN iLoc' = [iLoc EXCEPT ![r] =
                 [loc EXCEPT !.current_mtimes = current,
                             !.incremental = incremental,
                             !.changed_files = changed,
                             !.union_paths = IF loc.corpus_full_rebuild THEN loc.live
                                             ELSE changed]]
        /\ iPc' = [iPc EXCEPT ![r] = "planned"]
    /\ UNCHANGED <<disk, corpusDisk, storeDisk, mtimesDisk, editsLeft, watermarkDisk, lastRun>>
    /\ UNCHANGED notIndex

\* lines 690-716: read and chunk the union set; a file that is gone by now
\* is a per-file error
IndexChunk ==
    /\ \E r \in Runners :
        /\ iPc[r] = "planned"
        /\ LET loc == iLoc[r]
           IN iLoc' = [iLoc EXCEPT ![r] =
                 [loc EXCEPT !.processed_by_rel =
                                 [f \in Files |-> IF f \in loc.union_paths /\ disk[f].exists
                                                  THEN disk[f].content ELSE 0],
                             !.processed_errs =
                                 {f \in loc.union_paths : ~disk[f].exists}]]
        /\ iPc' = [iPc EXCEPT ![r] = "chunked"]
    /\ UNCHANGED <<disk, corpusDisk, storeDisk, mtimesDisk, editsLeft, watermarkDisk, lastRun>>
    /\ UNCHANGED notIndex

\* ChunkCorpus::purge_missing_files / VectorStore::purge_missing_files
purge_missing_files(chunks, live) == [f \in Files |-> IF f \in live THEN chunks[f] ELSE 0]

\* lines 718-736: purge, set the new chunks, save the corpus
IndexSaveCorpus ==
    /\ \E r \in Runners :
        /\ iPc[r] = "chunked"
        /\ LET loc == iLoc[r]
               purged == IF loc.corpus_full_rebuild THEN loc.corpus
                         ELSE purge_missing_files(loc.corpus, loc.live)
               updated == [f \in Files |->
                             IF loc.processed_by_rel[f] # 0 /\ f \notin loc.processed_errs
                             THEN loc.processed_by_rel[f] ELSE purged[f]]
               corpus_dirty == loc.corpus_full_rebuild \/ purged # loc.corpus
                                 \/ Keys(loc.processed_by_rel) # {}
           IN /\ iLoc' = [iLoc EXCEPT ![r].corpus = updated]
              /\ corpusDisk' = IF corpus_dirty THEN [exists |-> TRUE, chunks |-> updated]
                               ELSE corpusDisk
        /\ iPc' = [iPc EXCEPT ![r] = "corpus_saved"]
    /\ UNCHANGED <<disk, storeDisk, mtimesDisk, editsLeft, watermarkDisk, lastRun>>
    /\ UNCHANGED notIndex

\* lines 739-791: load or create the store, purge, apply the deltas, save
IndexSaveStore ==
    /\ \E r \in Runners :
        /\ iPc[r] = "corpus_saved"
        /\ LET loc == iLoc[r]
               loaded == IF loc.incremental /\ storeDisk.exists THEN storeDisk.chunks
                         ELSE EmptyMap
               purged == IF loc.incremental THEN purge_missing_files(loaded, loc.live)
                         ELSE loaded
               applied == [f \in Files |->
                             IF f \in loc.changed_files /\ f \notin loc.processed_errs
                                /\ loc.processed_by_rel[f] # 0
                             THEN loc.processed_by_rel[f] ELSE purged[f]]
           IN storeDisk' = [exists |-> TRUE, chunks |-> applied]
        /\ iPc' = [iPc EXCEPT ![r] = "store_saved"]
    /\ UNCHANGED <<disk, corpusDisk, mtimesDisk, iLoc, editsLeft, watermarkDisk, lastRun>>
    /\ UNCHANGED notIndex

\* lines 793-807: persist the mtimes of this run, return Ok(stats); no
\* watermark is computed or written
IndexWriteMtimes ==
    /\ \E r \in Runners :
        /\ iPc[r] = "store_saved"
        /\ mtimesDisk' = [exists |-> TRUE, m |-> iLoc[r].current_mtimes]
        /\ iPc' = [iPc EXCEPT ![r] = "idle"]
        /\ iLoc' = [iLoc EXCEPT ![r] = NoLocals]
        /\ lastRun' = [result |-> "ok", stable |-> ~iLoc[r].touched]
    /\ UNCHANGED <<disk, corpusDisk, storeDisk, editsLeft, watermarkDisk>>
    /\ UNCHANGED notIndex

(***************************************************************************)
(* Indexer: ProjectIndexer::index_with_mode, the single-model run of the   *)
(* watcher's run_index_cycle (indexer.index(), force_full = false), on the *)
(* same corpus, store and mtimes.json                                      *)
(***************************************************************************)
W == "watcher"

\* index_with_mode lines 131-206: scan, load the corpus, load or create the
\* store; load_ok is the outcome of VectorStore::load_for_model
SingleScan ==
    /\ iPc[W] = "idle"
    /\ \E load_ok \in BOOLEAN :
        LET rebuild == ~corpusDisk.exists
            allow_incremental_store == ~rebuild /\ storeDisk.exists
            loaded == allow_incremental_store /\ load_ok
        IN /\ ~allow_incremental_store => load_ok
           /\ iLoc' = [iLoc EXCEPT ![W] =
                 [NoLocals EXCEPT
                    !.live = {f \in Files : disk[f].exists},
                    !.corpus = IF rebuild THEN EmptyMap ELSE corpusDisk.chunks,
                    !.corpus_full_rebuild = rebuild,
                    !.corpus_dirty = rebuild,
                    !.store = IF loaded THEN storeDisk.chunks ELSE EmptyMap,
                    !.has_mtimes = loaded,
                    !.existing_mtimes = IF loaded /\ mtimesDisk.exists THEN mtimesDisk.m
                                        ELSE EmptyMap]]
    /\ iPc' = [iPc EXCEPT ![W] = "single_loaded"]
    /\ UNCHANGED <<disk, corpusDisk, storeDisk, mtimesDisk, editsLeft, watermarkDisk, lastRun>>
    /\ UNCHANGED notIndex

\* filter_changed_files reads the metadata of every scanned file with `?`
FilterFails(loc) ==
    /\ ~loc.corpus_full_rebuild
    /\ loc.has_mtimes
    /\ \E f \in loc.live : ~disk[f].exists

\* filter_changed_files lines 317-346
filter_changed_files(files, existing) ==
    {f \in files : existing[f] = 0 \/ disk[f].mtime > existing[f]}

\* lines 209-256: the files to process, the purge of an incremental run, the
\* current mtimes
SingleFilter ==
    /\ iPc[W] = "single_loaded"
    /\ ~FilterFails(iLoc[W])
    /\ LET loc == iLoc[W]
           files_to_process == IF loc.corpus_full_rebuild THEN loc.live
                               ELSE IF loc.has_mtimes
                                    THEN filter_changed_files(loc.live, loc.existing_mtimes)
                                    ELSE loc.live
           store == IF loc.has_mtimes THEN purge_missing_files(loc.store, loc.live)
                    ELSE loc.store
           corpus == IF loc.has_mtimes THEN purge_missing_files(loc.corpus, loc.live)
                     ELSE loc.corpus
       IN iLoc' = [iLoc EXCEPT ![W] =
             [loc EXCEPT !.changed_files = files_to_process,
                         !.union_paths = files_to_process,
                         !.store = store,
                         !.corpus = corpus,
                         !.corpus_dirty = loc.corpus_dirty \/ corpus # loc.corpus,
                         !.current_mtimes =
                             [f \in Files |-> IF f \in loc.live /\ disk[f].exists
                                              THEN disk[f].mtime ELSE 0]]]
    /\ iPc' = [iPc EXCEPT ![W] = "single_filtered"]
    /\ UNCHANGED <<disk, corpusDisk, storeDisk, mtimesDisk, editsLeft, watermarkDisk, lastRun>>
    /\ UNCHANGED notIndex

\* line 212: a scanned file whose metadata cannot be read makes
\* filter_changed_files, and with it the run, return Err
SingleFilterFails ==
    /\ iPc[W] = "single_loaded"
    /\ FilterFails(iLoc[W])
    /\ iPc' = [iPc EXCEPT ![W] = "idle"]
    /\ iLoc' = [iLoc EXCEPT ![W] = NoLocals]
    /\ lastRun' = [result |-> "err", stable |-> FALSE]
    /\ UNCHANGED <<disk, corpusDisk, storeDisk, mtimesDisk, editsLeft, watermarkDisk>>
    /\ UNCHANGED notIndex

\* lines 258-295: read and chunk the targets; Ok results go to the corpus and
\* to the store, Err results to stats.errors
SingleProcess ==
    /\ iPc[W] = "single_filtered"
    /\ LET loc == iLoc[W]
           ok == {f \in loc.union_paths : disk[f].exists}
       IN iLoc' = [iLoc EXCEPT ![W] =
             [loc EXCEPT !.processed_by_rel =
                             [f \in Files |-> IF f \in ok THEN disk[f].content ELSE 0],
                         !.processed_errs = loc.union_paths \ ok,
                         !.corpus = [f \in Files |-> IF f \in ok THEN disk[f].content
                                                     ELSE loc.corpus[f]],
                         !.store = [f \in Files |-> IF f \in ok THEN disk[f].content
                                                    ELSE loc.store[f]],
                         !.corpus_dirty = loc.corpus_dirty \/ ok # {}]]
    /\ iPc' = [iPc EXCEPT ![W] = "single_processed"]
    /\ UNCHANGED <<disk, corpusDisk, storeDisk, mtimesDisk, editsLeft, watermarkDisk, lastRun>>
    /\ UNCHANGED notIndex

\* lines 297-313: save the corpus if dirty, the store and the mtimes, return
\* Ok(stats); no watermark is computed or written
SingleSave ==
    /\ iPc[W] = "single_processed"
    /\ LET loc == iLoc[W]
       IN /\ corpusDisk' = IF loc.corpus_dirty THEN [exists |-> TRUE, chunks |-> loc.corpus]
                           ELSE corpusDisk
          /\ storeDisk' = [exists |-> TRUE, chunks |-> loc.store]
          /\ mtimesDisk' = [exists |-> TRUE, m |-> loc.current_mtimes]
          /\ lastRun' = [result |-> "ok", stable |-> ~loc.touched]
    /\ iPc' = [iPc EXCEPT ![W] = "idle"]
    /\ iLoc' = [iLoc EXCEPT ![W] = NoLocals]
    /\ UNCHANGED <<disk, editsLeft, watermarkDisk>>
    /\ UNCHANGED notIndex

IndexNext ==
    \/ EditFile
    \/ DeleteFile
    \/ IndexScan
    \/ IndexPlan
    \/ IndexChunk
    \/ IndexSaveCorpus
    \/ IndexSaveStore
    \/ IndexWriteMtimes

(***************************************************************************)
(* Indexer: runs one at a time, as the project lock of the specification   *)
(* would have them: the index command calls index_models, the watcher      *)
(* calls index_with_mode, and a run starts only when no run is in progress *)
(***************************************************************************)
AllIdle == \A r \in Runners : iPc[r] = "idle"

SeqIndexScan == AllIdle /\ IndexScan /\ iPc'[W] = "idle"

SeqSingleScan == AllIdle /\ SingleScan

IndexSeqNext ==
    \/ EditFile
    \/ DeleteFile
    \/ SeqIndexScan
    \/ IndexPlan
    \/ IndexChunk
    \/ IndexSaveCorpus
    \/ IndexSaveStore
    \/ IndexWriteMtimes
    \/ SeqSingleScan
    \/ SingleFilter
    \/ SingleFilterFails
    \/ SingleProcess
    \/ SingleSave

IndexOff ==
    /\ disk = [f \in Files |-> [exists |-> FALSE, mtime |-> 0, content |-> 0]]
    /\ corpusDisk = [exists |-> FALSE, chunks |-> EmptyMap]
    /\ storeDisk = [exists |-> FALSE, chunks |-> EmptyMap]
    /\ mtimesDisk = [exists |-> FALSE, m |-> EmptyMap]
    /\ iPc = [r \in Runners |-> "idle"]
    /\ iLoc = [r \in Runners |-> NoLocals]
    /\ editsLeft = 0
    /\ watermarkDisk = NoWatermark
    /\ lastRun = NoRun

(***************************************************************************)
(* Indexer: index state, assess_staleness                                  *)
(***************************************************************************)
\* WatermarkMissing pushed whether or not the index exists
assess_staleness_unguarded(project_watermark, index_exists, index_corrupt, index_watermark) ==
    LET index_mark == index_watermark.t
        reasons ==
            (IF ~index_exists THEN <<"IndexMissing">> ELSE <<>>)
            \o (IF index_corrupt THEN <<"IndexCorrupt">> ELSE <<>>)
            \o (CASE ~index_watermark.some ->
                       <<"WatermarkMissing">>
                  [] index_mark.kind = "git" /\ project_watermark.kind = "git" ->
                       (IF index_mark.git_head # project_watermark.git_head
                        THEN <<"GitHeadMismatch">> ELSE <<>>)
                       \o (IF index_mark.git_dirty # project_watermark.git_dirty
                           THEN <<"GitDirtyMismatch">> ELSE <<>>)
                  [] index_mark.kind = "filesystem"
                         /\ project_watermark.kind = "filesystem" ->
                       IF \/ index_mark.file_count # project_watermark.file_count
                          \/ index_mark.max_mtime_ms # project_watermark.max_mtime_ms
                          \/ index_mark.total_bytes # project_watermark.total_bytes
                       THEN <<"FilesystemChanged">> ELSE <<>>
                  [] OTHER -> <<"FilesystemChanged">>)
    IN  [stale |-> reasons # <<>>, reasons |-> reasons]

\* index_state.rs:100-165: the reasons in the order they are pushed; the
\* computed_at_unix_ms of a watermark is not compared
assess_staleness(project_watermark, index_exists, index_corrupt, index_watermark) ==
    LET index_mark == index_watermark.t
        reasons ==
            (IF ~index_exists THEN <<"IndexMissing">> ELSE <<>>)
            \o (IF index_corrupt THEN <<"IndexCorrupt">> ELSE <<>>)
            \o (CASE ~index_watermark.some ->
                       IF index_exists THEN <<"WatermarkMissing">> ELSE <<>>
                  [] index_mark.kind = "git" /\ project_watermark.kind = "git" ->
                       (IF index_mark.git_head # project_watermark.git_head
                        THEN <<"GitHeadMismatch">> ELSE <<>>)
                       \o (IF index_mark.git_dirty # project_watermark.git_dirty
                           THEN <<"GitDirtyMismatch">> ELSE <<>>)
                  [] index_mark.kind = "filesystem"
                         /\ project_watermark.kind = "filesystem" ->
                       IF \/ index_mark.file_count # project_watermark.file_count
                          \/ index_mark.max_mtime_ms # project_watermark.max_mtime_ms
                          \/ index_mark.total_bytes # project_watermark.total_bytes
                       THEN <<"FilesystemChanged">> ELSE <<>>
                  [] OTHER -> <<"FilesystemChanged">>)
    IN  [stale |-> reasons # <<>>, reasons |-> reasons]

MaxMark == 1
Watermarks ==
    [kind : {"git"}, computed_at_unix_ms : 0..MaxMark,
     git_head : {"abc", "def"}, git_dirty : BOOLEAN]
    \cup [kind : {"filesystem"}, computed_at_unix_ms : 0..MaxMark,
          file_count : 0..MaxMark, max_mtime_ms : 0..MaxMark,
          total_bytes : 0..MaxMark]

StalenessInit ==
    /\ callPc = "start"
    /\ callIn \in [project_watermark : Watermarks, index_exists : BOOLEAN,
                   index_corrupt : BOOLEAN,
                   index_watermark : {None} \cup {Some(w) : w \in Watermarks}]
    /\ callOut = <<>>

AssessStaleness ==
    /\ callPc = "start"
    /\ callOut' = assess_staleness(callIn.project_watermark, callIn.index_exists,
                                   callIn.index_corrupt, callIn.index_watermark)
    /\ callPc' = "done"
    /\ UNCHANGED callIn
    /\ UNCHANGED notCall

(***************************************************************************)
(* Search: reciprocal rank fusion                                          *)
(***************************************************************************)
\* an f32 score as the exact fraction num / den, den > 0; weights and scores
\* are counted in tenths
FracAdd(a, b) == [num |-> a.num * b.den + b.num * a.den, den |-> a.den * b.den]
FracLess(a, b) == a.num * b.den < b.num * a.den
FracEq(a, b) == a.num * b.den = b.num * a.den

\* fusion.rs:84-87 and 90-93: one loop over a result list, rank from 0;
\* `*scores.entry(*idx).or_insert(0.0) += rrf_score`
RECURSIVE add_rrf_scores(_, _, _, _, _)
add_rrf_scores(scores, results, weight, k, rank) ==
    IF rank >= Len(results) THEN scores
    ELSE LET idx == results[rank + 1]
             rrf_score == [num |-> weight, den |-> k + rank + 1]
             old == IF idx \in DOMAIN scores THEN scores[idx]
                    ELSE [num |-> 0, den |-> 1]
             next == [i \in DOMAIN scores \cup {idx} |->
                         IF i = idx THEN FracAdd(old, rrf_score) ELSE scores[i]]
         IN  add_rrf_scores(next, results, weight, k, rank + 1)

\* fusion.rs:97: the stable sort_by(|a, b| b.1.partial_cmp(&a.1)), descending
RECURSIVE sort_fused(_)
sort_fused(fused) ==
    IF fused = <<>> THEN <<>>
    ELSE LET rest == sort_fused(Tail(fused))
             first == Head(fused)
             n == Cardinality({i \in 1..Len(rest) :
                                  FracLess(first.score, rest[i].score)})
         IN  SubSeq(rest, 1, n) \o <<first>> \o SubSeq(rest, n + 1, Len(rest))

\* fusion.rs:74-100; into_iter is the order in which the HashMap yields its
\* keys, which the code does not control
fuse_with_weights(semantic_results, fuzzy_results, semantic_weight, fuzzy_weight, k, into_iter) ==
    LET semantic == add_rrf_scores(<<>>, semantic_results, semantic_weight, k, 0)
        scores == add_rrf_scores(semantic, fuzzy_results, fuzzy_weight, k, 0)
    IN  sort_fused([i \in 1..Len(into_iter) |->
                       [idx |-> into_iter[i], score |-> scores[into_iter[i]]]])

\* fusion.rs:27-50: one adaptive_k for both lists
fuse_adaptive(k, weights, semantic_results, fuzzy_results, into_iter) ==
    LET adaptive_k == k + 40
    IN  fuse_with_weights(semantic_results, fuzzy_results, weights.semantic,
                          weights.fuzzy, adaptive_k, into_iter)

\* RRFFusion::default(): k = 60.0
DEFAULT_K == 60

MaxChunk == 2
\* result lists: each chunk index at most once, in rank order
Rankings == UNION { InsertionOrders(ids) : ids \in SUBSET (0..MaxChunk) }
\* QueryWeights in tenths
QueryWeightsChoices ==
    { [semantic |-> 7, fuzzy |-> 3], [semantic |-> 5, fuzzy |-> 5],
      [semantic |-> 3, fuzzy |-> 7] }

FusionInit ==
    /\ callPc = "start"
    /\ callIn \in [semantic_results : Rankings, fuzzy_results : Rankings,
                   weights : QueryWeightsChoices]
    /\ callOut = <<>>

\* hybrid.rs:99-101: self.fusion.fuse_adaptive(query, &weights, ..)
Fuse ==
    /\ callPc = "start"
    /\ \E into_iter \in InsertionOrders(
                            {callIn.semantic_results[i] :
                                 i \in 1..Len(callIn.semantic_results)}
                            \cup {callIn.fuzzy_results[i] :
                                      i \in 1..Len(callIn.fuzzy_results)}) :
         callOut' = fuse_adaptive(DEFAULT_K, callIn.weights,
                                  callIn.semantic_results, callIn.fuzzy_results,
                                  into_iter)
    /\ callPc' = "done"
    /\ UNCHANGED callIn
    /\ UNCHANGED notCall

(***************************************************************************)
(* Search: score normalization                                             *)
(***************************************************************************)
\* A finite f32 score is [k |-> "fin", v |-> n] with n counted in units of
\* 2^-24; the other scores are [k |-> "nan"], [k |-> "inf"] and [k |-> "-inf"].
\* A normalized score is the fraction num / den of 1.0.
is_finite(score) == score.k = "fin"
\* f32::EPSILON = 2^-23
EPSILON == 2
\* 1e-6 lies between 16 and 17 units: a whole number of units is below
\* MIN_DELTA iff it is below 17
MIN_DELTA == 17

\* normalize_scores without the MIN_DELTA guard of lines 375-383
normalize_scores_no_min_delta(results) ==
    LET finite == {results[i].v : i \in {j \in 1..Len(results) : is_finite(results[j])}}
        had_invalid == \E i \in 1..Len(results) : ~is_finite(results[i])
        min_score == CHOOSE m \in finite : \A x \in finite : m <= x
        max_score == CHOOSE m \in finite : \A x \in finite : x <= m
        range == max_score - min_score
        one == [k |-> "fin", num |-> 1, den |-> 1]
        zero == [k |-> "fin", num |-> 0, den |-> 1]
    IN  IF results = <<>> THEN results
        ELSE IF finite = {}
        THEN \* min_score is still f32::MAX and max_score f32::MIN, both finite:
             \* lines 357-362 do not return; max - min = -inf passes neither
             \* delta test; every score is reset to f32::MAX and becomes
             \* (MAX - MAX) / -inf = -0.0
             [i \in 1..Len(results) |-> zero]
        ELSE IF had_invalid /\ range < EPSILON
        THEN [i \in 1..Len(results) |-> IF is_finite(results[i]) THEN one ELSE zero]
        ELSE
             [i \in 1..Len(results) |->
                 [k |-> "fin",
                  num |-> (IF is_finite(results[i]) THEN results[i].v ELSE min_score)
                          - min_score,
                  den |-> range]]

\* hybrid.rs:338-403; max_score >= min_score, so abs() of the difference is
\* the difference
normalize_scores(results) ==
    LET finite == {results[i].v : i \in {j \in 1..Len(results) : is_finite(results[j])}}
        had_invalid == \E i \in 1..Len(results) : ~is_finite(results[i])
        min_score == CHOOSE m \in finite : \A x \in finite : m <= x
        max_score == CHOOSE m \in finite : \A x \in finite : x <= m
        range == max_score - min_score
        one == [k |-> "fin", num |-> 1, den |-> 1]
        zero == [k |-> "fin", num |-> 0, den |-> 1]
    IN  IF results = <<>> THEN results
        ELSE IF finite = {}
        THEN \* min_score is still f32::MAX and max_score f32::MIN, both finite:
             \* lines 357-362 do not return; max - min = -inf passes neither
             \* delta test; every score is reset to f32::MAX and becomes
             \* (MAX - MAX) / -inf = -0.0
             [i \in 1..Len(results) |-> zero]
        ELSE IF had_invalid /\ range < EPSILON
        THEN [i \in 1..Len(results) |-> IF is_finite(results[i]) THEN one ELSE zero]
        ELSE IF range < MIN_DELTA
        THEN [i \in 1..Len(results) |-> one]
        ELSE
             [i \in 1..Len(results) |->
                 [k |-> "fin",
                  num |-> (IF is_finite(results[i]) THEN results[i].v ELSE min_score)
                          - min_score,
                  den |-> range]]

MaxScores == 3
\* finite scores 0, 1, 4 and 20 units apart, and the non-finite ones
ScoreUnits == {0, 1, 4, 20}
Scores ==
    [k : {"fin"}, v : ScoreUnits] \cup {[k |-> "nan"], [k |-> "inf"], [k |-> "-inf"]}

NormalizeInit ==
    /\ callPc = "start"
    /\ callIn \in UNION { [1..n -> Scores] : n \in 0..MaxScores }
    /\ callOut = <<>>

Normalize ==
    /\ callPc = "start"
    /\ callOut' = normalize_scores(callIn)
    /\ callPc' = "done"
    /\ UNCHANGED callIn
    /\ UNCHANGED notCall

(***************************************************************************)
(* Watcher: a watcher that stays live. Its handle is kept, the loop takes  *)
(* a ready branch, run_index_cycle returns and time passes. The clock of   *)
(* the model stops at MaxTime, so events and triggers are accepted, and a  *)
(* cycle ends, while a debounce can still elapse.                          *)
(***************************************************************************)
PathOutput == [inside |-> TRUE, comps |-> <<"output", "a.rs">>]
LiveFsEvents == FsEvents \cup {[ok |-> TRUE, paths |-> <<PathOutput>>]}

InTime == now + wCfg.debounce <= MaxTime

\* the notify callback, as FsEvent, on the paths of LiveFsEvents
LiveFsEvent ==
    /\ handles >= 1
    /\ LoopAlive
    /\ fsLeft > 0
    /\ Len(event_rx) < EventCap
    /\ InTime
    /\ \E event \in LiveFsEvents : event_rx' = Append(event_rx, event)
    /\ fsLeft' = fsLeft - 1
    /\ UNCHANGED <<now, wCfg, wPc, state, health, command_rx, handles, trigLeft,
                   running, lastRecv, trigAt, cycleAt, windowFirst>>
    /\ UNCHANGED notWatcher

LiveTrigger == InTime /\ Trigger

LiveTick == (wPc = "indexing" => now + wCfg.debounce < MaxTime) /\ Tick

WatcherLiveNext ==
    \/ LiveFsEvent
    \/ LiveTrigger
    \/ RecvEvent
    \/ RecvTrigger
    \/ CycleStart
    \/ CycleFinish
    \/ LiveTick

(***************************************************************************)
(* Indexer: the same runs on files whose mtime does not move forward with  *)
(* every write. mtimes are whole seconds (duration.as_secs()), so a file   *)
(* written twice within a second keeps its mtime; a checkout or an         *)
(* unpacked archive may set an older one.                                  *)
(***************************************************************************)
EditFileKeepingMtime ==
    /\ editsLeft > 0
    /\ \E f \in Files :
        /\ disk[f].exists
        /\ \E mtime \in {disk[f].mtime, disk[f].mtime - 1} \ {0} :
             disk' = [disk EXCEPT ![f] = [exists |-> TRUE, mtime |-> mtime,
                                          content |-> @.content + 1]]
    /\ editsLeft' = editsLeft - 1
    /\ iLoc' = Touch(iLoc)
    /\ lastRun' = [lastRun EXCEPT !.stable = FALSE]
    /\ UNCHANGED <<corpusDisk, storeDisk, mtimesDisk, iPc, watermarkDisk>>
    /\ UNCHANGED notIndex

IndexClockNext ==
    \/ IndexSeqNext
    \/ EditFileKeepingMtime

(***************************************************************************)
(* Indexer: the same runs on files that cannot all be read or chunked:     *)
(* read_file_static or chunk_str returns Err for a file that is on disk    *)
(* (not valid UTF-8, a chunker error)                                      *)
(***************************************************************************)
\* index_models lines 690-716, some of the files failing
IndexChunkFails ==
    /\ \E r \in Runners :
        /\ iPc[r] = "planned"
        /\ LET loc == iLoc[r]
           IN \E failing \in SUBSET {f \in loc.union_paths : disk[f].exists} :
                /\ failing # {}
                /\ iLoc' = [iLoc EXCEPT ![r] =
                      [loc EXCEPT !.processed_by_rel =
                                      [f \in Files |->
                                          IF f \in loc.union_paths \ failing /\ disk[f].exists
                                          THEN disk[f].content ELSE 0],
                                  !.processed_errs =
                                      failing \cup {f \in loc.union_paths : ~disk[f].exists}]]
        /\ iPc' = [iPc EXCEPT ![r] = "chunked"]
    /\ UNCHANGED <<disk, corpusDisk, storeDisk, mtimesDisk, editsLeft, watermarkDisk, lastRun>>
    /\ UNCHANGED notIndex

\* index_with_mode lines 258-295, some of the files failing
SingleProcessFails ==
    /\ iPc[W] = "single_filtered"
    /\ LET loc == iLoc[W]
       IN \E failing \in SUBSET {f \in loc.union_paths : disk[f].exists} :
            /\ failing # {}
            /\ LET ok == {f \in loc.union_paths : disk[f].exists} \ failing
               IN iLoc' = [iLoc EXCEPT ![W] =
                     [loc EXCEPT !.processed_by_rel =
                                     [f \in Files |-> IF f \in ok THEN disk[f].content ELSE 0],
                                 !.processed_errs = loc.union_paths \ ok,
                                 !.corpus = [f \in Files |-> IF f \in ok THEN disk[f].content
                                                             ELSE loc.corpus[f]],
                                 !.store = [f \in Files |-> IF f \in ok THEN disk[f].content
                                                            ELSE loc.store[f]],
                                 !.corpus_dirty = loc.corpus_dirty \/ ok # {}]]
    /\ iPc' = [iPc EXCEPT ![W] = "single_processed"]
    /\ UNCHANGED <<disk, corpusDisk, storeDisk, mtimesDisk, editsLeft, watermarkDisk, lastRun>>
    /\ UNCHANGED notIndex

IndexFailingNext ==
    \/ IndexSeqNext
    \/ IndexChunkFails
    \/ SingleProcessFails

(***************************************************************************)
(* Indexer: index_models for a subset of the project's models. One run at  *)
(* a time and no write to the project during a run; every model has its    *)
(* store and its mtimes.json, the chunk corpus is shared.                  *)
(***************************************************************************)
ModelIds == {"m1", "m2"}

\* indexer.rs:549-808 on the project [disk, corpus, store, mtimes]: the scan
\* and the corpus (563-599), the mtimes (601-611), the plan of each model
\* (620-675), the union set chunked once (677-716), the corpus purged,
\* updated and saved (718-736), the store and the mtimes of each model of the
\* run (739-797)
index_models(project, models, force_full) ==
    LET live == {f \in Files : project.disk[f].exists}
        corpus_full_rebuild == force_full \/ ~project.corpus.exists
        corpus == IF corpus_full_rebuild THEN EmptyMap ELSE project.corpus.chunks
        current_mtimes == [f \in Files |-> IF f \in live THEN project.disk[f].mtime ELSE 0]
        incremental(m) == ~force_full /\ ~corpus_full_rebuild /\ project.store[m].exists
        existing_mtimes(m) == IF incremental(m) /\ project.mtimes[m].exists
                              THEN project.mtimes[m].m ELSE EmptyMap
        changed_files(m) ==
            ChangedFiles(force_full \/ corpus_full_rebuild \/ ~project.store[m].exists,
                         current_mtimes, existing_mtimes(m))
        union_changed == UNION {changed_files(m) : m \in models}
        union_paths == IF corpus_full_rebuild THEN live ELSE union_changed
        processed_by_rel == [f \in Files |-> IF f \in union_paths
                                             THEN project.disk[f].content ELSE 0]
        purged == IF corpus_full_rebuild THEN corpus ELSE purge_missing_files(corpus, live)
        updated == [f \in Files |-> IF processed_by_rel[f] # 0 THEN processed_by_rel[f]
                                    ELSE purged[f]]
        corpus_dirty == corpus_full_rebuild \/ purged # corpus \/ union_paths # {}
        saved_store(m) ==
            LET loaded == IF incremental(m) THEN project.store[m].chunks ELSE EmptyMap
                kept == IF incremental(m) THEN purge_missing_files(loaded, live) ELSE loaded
            IN  [f \in Files |-> IF f \in changed_files(m) /\ processed_by_rel[f] # 0
                                 THEN processed_by_rel[f] ELSE kept[f]]
    IN  [project EXCEPT
            !.corpus = IF corpus_dirty THEN [exists |-> TRUE, chunks |-> updated] ELSE @,
            !.store = [m \in ModelIds |->
                          IF m \in models THEN [exists |-> TRUE, chunks |-> saved_store(m)]
                          ELSE @[m]],
            !.mtimes = [m \in ModelIds |->
                           IF m \in models THEN [exists |-> TRUE, m |-> current_mtimes]
                           ELSE @[m]]]

\* callIn: the edits left and the models of the last run; callOut: the project
ModelsInit ==
    /\ callPc = "models"
    /\ callIn = [edits_left |-> MaxEdits, models |-> ModelIds]
    /\ callOut \in [disk : [Files -> { [exists |-> TRUE, mtime |-> 1, content |-> 1],
                                       [exists |-> FALSE, mtime |-> 0, content |-> 0] }],
                    corpus : {[exists |-> FALSE, chunks |-> EmptyMap]},
                    store : {[m \in ModelIds |-> [exists |-> FALSE, chunks |-> EmptyMap]]},
                    mtimes : {[m \in ModelIds |-> [exists |-> FALSE, m |-> EmptyMap]]}]

\* a file is written between two runs: new content, new mtime
ModelsEditFile ==
    /\ callPc = "models"
    /\ callIn.edits_left > 0
    /\ \E f \in Files :
        callOut' = [callOut EXCEPT !.disk[f] = [exists |-> TRUE, mtime |-> @.mtime + 1,
                                                content |-> @.content + 1]]
    /\ callIn' = [callIn EXCEPT !.edits_left = @ - 1]
    /\ UNCHANGED callPc
    /\ UNCHANGED notCall

ModelsDeleteFile ==
    /\ callPc = "models"
    /\ callIn.edits_left > 0
    /\ \E f \in Files :
        /\ callOut.disk[f].exists
        /\ callOut' = [callOut EXCEPT !.disk[f].exists = FALSE]
    /\ callIn' = [callIn EXCEPT !.edits_left = @ - 1]
    /\ UNCHANGED callPc
    /\ UNCHANGED notCall

\* the index command, or the watcher after set_models, runs index_models for
\* some of the models
ModelsIndex ==
    /\ callPc = "models"
    /\ \E models \in SUBSET ModelIds \ {{}}, force_full \in BOOLEAN :
        /\ callOut' = index_models(callOut, models, force_full)
        /\ callIn' = [callIn EXCEPT !.models = models]
    /\ UNCHANGED callPc
    /\ UNCHANGED notCall

ModelsNext ==
    \/ ModelsEditFile
    \/ ModelsDeleteFile
    \/ ModelsIndex

(***************************************************************************)
(* file_slice: one file read page after page                               *)
(* crates/mcp-server/src/tools/file_slice.rs                               *)
(***************************************************************************)

MAX_MAX_LINES == 5000
MAX_MAX_CHARS == 500000

\* usize::clamp
clamp(v, lo, hi) == IF v < lo THEN lo ELSE IF v > hi THEN hi ELSE v

\* BufRead::read_line at a byte offset: the bytes up to and including the next
\* newline, or up to the end of the file; a file is a sequence of "x" and "n"
RECURSIVE read_line(_, _)
read_line(file, offset) ==
    IF offset >= Len(file) THEN 0
    ELSE IF file[offset + 1] = "n" THEN 1
    ELSE 1 + read_line(file, offset + 1)

\* the loop of read_file_slice, lines 151-203; st holds the values of the
\* locals when an iteration starts
RECURSIVE read_file_slice_loop(_, _, _)
read_file_slice_loop(file, cfg, locals) ==
    LET iteration(st) ==
            LET pos_before_read == st.current_offset
                bytes_read == read_line(file, pos_before_read)
                \* trim_end_matches('\n'), then chars().count()
                line_chars ==
                    IF bytes_read > 0 /\ file[pos_before_read + bytes_read] = "n"
                    THEN bytes_read - 1 ELSE bytes_read
                extra_chars == IF st.returned_lines = 0 THEN line_chars
                               ELSE 1 + line_chars
                cursor == <<[next_start_line |-> st.line_no,
                             next_byte_offset |-> pos_before_read]>>
                read == [st EXCEPT !.current_offset = @ + bytes_read]
            IN  IF bytes_read = 0 THEN st
                ELSE IF st.line_no < cfg.start_line
                THEN read_file_slice_loop(file, cfg, [read EXCEPT !.line_no = @ + 1])
                ELSE IF st.returned_lines >= cfg.max_lines
                THEN [read EXCEPT !.truncated = "max_lines", !.next_cursor = cursor]
                ELSE IF st.used_chars + extra_chars > cfg.max_chars
                THEN [read EXCEPT !.truncated = "max_chars", !.next_cursor = cursor]
                ELSE read_file_slice_loop(file, cfg,
                         [read EXCEPT !.used_chars = @ + extra_chars,
                                      !.returned_lines = @ + 1,
                                      !.end_line = st.line_no,
                                      !.line_no = @ + 1])
    IN  CHOOSE out \in {iteration(st) : st \in {locals}} : TRUE

\* read_file_slice, lines 129-216
read_file_slice(file, cfg) ==
    LET out == read_file_slice_loop(file, cfg,
                   [used_chars |-> 0, returned_lines |-> 0, end_line |-> 0,
                    truncated |-> "no", next_cursor |-> <<>>,
                    current_offset |-> cfg.start_byte_offset,
                    line_no |-> IF cfg.using_cursor THEN cfg.start_line ELSE 1])
    IN  [used_chars |-> out.used_chars, returned_lines |-> out.returned_lines,
         end_line |-> out.end_line, truncated |-> out.truncated,
         next_cursor |-> out.next_cursor]

\* decode_resume_cursor, lines 40-84: cursor is <<>> or <<token>>; a token of
\* another max_lines, max_chars or file size is rejected
decode_resume_cursor(cursor, validation, start_line) ==
    IF cursor = <<>>
    THEN [ok |-> TRUE, using_cursor |-> FALSE, start_line |-> start_line,
          start_byte_offset |-> 0]
    ELSE IF \/ cursor[1].max_lines # validation.max_lines
            \/ cursor[1].max_chars # validation.max_chars
            \/ cursor[1].file_size_bytes # validation.file_size_bytes
            \/ cursor[1].next_byte_offset > validation.file_size_bytes
    THEN [ok |-> FALSE, using_cursor |-> FALSE, start_line |-> 0,
          start_byte_offset |-> 0]
    ELSE [ok |-> TRUE, using_cursor |-> TRUE,
          start_line |-> IF cursor[1].next_start_line < 1 THEN 1
                         ELSE cursor[1].next_start_line,
          start_byte_offset |-> cursor[1].next_byte_offset]

\* compute_file_slice_result, lines 218-296, on a file that exists inside the
\* root; request: [max_lines, max_chars, start_line, cursor]
compute_file_slice_result(file, request) ==
    LET file_size_bytes == Len(file)
        max_lines == clamp(request.max_lines, 1, MAX_MAX_LINES)
        max_chars == clamp(request.max_chars, 1, MAX_MAX_CHARS)
        start_line == IF request.start_line < 1 THEN 1 ELSE request.start_line
        validation == [max_lines |-> max_lines, max_chars |-> max_chars,
                       file_size_bytes |-> file_size_bytes]
        resume == decode_resume_cursor(request.cursor, validation, start_line)
        read == read_file_slice(file,
                    [start_line |-> resume.start_line,
                     start_byte_offset |-> resume.start_byte_offset,
                     using_cursor |-> resume.using_cursor,
                     max_lines |-> max_lines, max_chars |-> max_chars])
    IN  IF ~resume.ok
        THEN [ok |-> FALSE, start_line |-> 0, start_byte_offset |-> 0,
              end_line |-> 0, returned_lines |-> 0, used_chars |-> 0,
              truncated |-> "no", next_cursor |-> <<>>]
        ELSE [ok |-> TRUE, start_line |-> resume.start_line,
              start_byte_offset |-> resume.start_byte_offset,
              end_line |-> read.end_line, returned_lines |-> read.returned_lines,
              used_chars |-> read.used_chars, truncated |-> read.truncated,
              \* encode_next_cursor, lines 86-105
              next_cursor |-> IF read.next_cursor = <<>> THEN <<>>
                              ELSE <<[max_lines |-> max_lines,
                                      max_chars |-> max_chars,
                                      file_size_bytes |-> file_size_bytes,
                                      next_start_line |-> read.next_cursor[1].next_start_line,
                                      next_byte_offset |-> read.next_cursor[1].next_byte_offset]>>]

\* the files: up to MaxBytes bytes, each a character or a newline
MaxBytes == 5
Bytes == {"x", "n"}
SliceFiles == UNION {[1..n -> Bytes] : n \in 0..MaxBytes}

\* the requests of the first page
MaxLineChoices == {0, 1, 2}
MaxCharChoices == {0, 2, 4}
StartLines == {0, 1, 2}

FileSliceRequests ==
    [file : SliceFiles, max_lines : MaxLineChoices,
     max_chars : MaxCharChoices, start_line : StartLines]

FileSliceInit ==
    /\ callPc = "request"
    /\ callIn = [file |-> <<>>, max_lines |-> 0, max_chars |-> 0, start_line |-> 0]
    /\ callOut = <<>>

\* the caller picks a file and the request of the first page
FileSliceRequest ==
    /\ callPc = "request"
    /\ callIn' \in FileSliceRequests
    /\ callPc' = "start"
    /\ UNCHANGED callOut
    /\ UNCHANGED notCall

\* the first page: no cursor.  callOut holds the last page returned
FileSliceFirstPage ==
    /\ callPc = "start"
    /\ callOut' = compute_file_slice_result(callIn.file,
                      [max_lines |-> callIn.max_lines, max_chars |-> callIn.max_chars,
                       start_line |-> callIn.start_line, cursor |-> <<>>])
    /\ callPc' = "paging"
    /\ UNCHANGED callIn
    /\ UNCHANGED notCall

\* the caller repeats the request with the page's next_cursor
FileSliceNextPage ==
    /\ callPc = "paging"
    /\ callOut.next_cursor # <<>>
    /\ callOut' = compute_file_slice_result(callIn.file,
                      [max_lines |-> callIn.max_lines, max_chars |-> callIn.max_chars,
                       start_line |-> callIn.start_line,
                       cursor |-> callOut.next_cursor])
    /\ UNCHANGED <<callPc, callIn>>
    /\ UNCHANGED notCall

FileSlicePages ==
    \/ FileSliceRequest
    \/ FileSliceFirstPage
    \/ FileSliceNextPage

(***************************************************************************)
(* text_search: an index run rewrites the corpus between two pages         *)
(* crates/mcp-server/src/tools/dispatch/router/text_search.rs              *)
(***************************************************************************)

\* the corpus an index run leaves after the project changed: a file was
\* deleted (purge_missing_files), or a file sorting before the others was
\* added; the other files keep their chunks
RewrittenCorpora(corpus) ==
    { SelectSeq(corpus, LAMBDA f : f.name # name) : name \in {"a.rs", "b.rs"} }
    \cup { <<[name |-> "0.rs", chunks |-> {[start_line |-> 1, end_line |-> 1]},
             lines |-> <<text>>]>> \o corpus : text \in {"foo", "bar"} }

\* callIn.old holds the corpus the first pages were read from, once rewritten
TextSearchRewriteInit ==
    /\ callPc = "start"
    /\ callIn \in [corpus : Corpora,
                   request : {r \in TextSearchRequests :
                                 /\ r.path = "/p" /\ r.pattern = "foo"
                                 /\ r.max_results > 0 /\ ~r.whole_word},
                   old : {<<>>}]
    /\ callOut = [pages |-> <<>>, request |-> callIn.request,
                  result |-> [error |-> "none", matches |-> <<>>,
                              truncated |-> FALSE, next_cursor |-> <<>>]]

\* an index run saves a new corpus while the caller holds a cursor; the tool
\* loads the corpus anew on every call (text_search, lines 349-472)
TextSearchCorpusRewritten ==
    /\ callPc = "paging"
    /\ callOut.result.next_cursor # <<>>
    /\ callIn.old = <<>>
    /\ \E corpus \in RewrittenCorpora(callIn.corpus) :
           callIn' = [callIn EXCEPT !.corpus = corpus, !.old = <<callIn.corpus>>]
    /\ UNCHANGED <<callPc, callOut>>
    /\ UNCHANGED notCall

TextSearchRewriteStep ==
    \/ TextSearchFirst
    \/ TextSearchFollow
    \/ TextSearchCorpusRewritten

(***************************************************************************)
(* graph: the context of a chunk                                           *)
(* crates/graph/src/assembler.rs, assemble_for_chunk                       *)
(***************************************************************************)

\* CodeGraph::find_node(name): the first node of that name in the order of
\* insertion, as a sequence of at most one node index; nodes is the arena of
\* the graph, node n being nodes[n + 1]
find_node(nodes, symbol_name) ==
    LET named == {n \in 0..(Len(nodes) - 1) : nodes[n + 1].name = symbol_name}
    IN  IF named = {} THEN <<>>
        ELSE <<CHOOSE n \in named : \A m \in named : n <= m>>

\* CodeGraph::find_nodes_by_chunk(chunk_id): all the nodes tied to the chunk,
\* in the order of insertion
RECURSIVE find_nodes_by_chunk(_, _, _)
find_nodes_by_chunk(nodes, chunk_id, n) ==
    IF n >= Len(nodes) THEN <<>>
    ELSE (IF nodes[n + 1].chunk_id = chunk_id THEN <<n>> ELSE <<>>)
             \o find_nodes_by_chunk(nodes, chunk_id, n + 1)

\* assemble_for_symbol, assembler.rs lines 80-150, with the lookup of the
\* primary node by name (93-106); the chunk of a node is named by its chunk_id
assemble_for_symbol_named(nodes, edges, symbol_name, max_depth) ==
    LET node == find_node(nodes, symbol_name)
        related_nodes == get_related_nodes(edges, node[1], max_depth,
                             <<[node |-> node[1], depth |-> 0, path |-> <<>>]>>, {}, <<>>)
    IN  IF node = <<>>
        THEN [ok |-> FALSE, primary_chunk |-> 0, related_chunks |-> <<>>]
        ELSE [ok |-> TRUE, primary_chunk |-> nodes[node[1] + 1].chunk_id,
              related_chunks |-> [i \in 1..Len(related_nodes) |->
                  [chunk |-> nodes[related_nodes[i].node + 1].chunk_id,
                   relationship |-> related_nodes[i].path,
                   distance |-> related_nodes[i].depth]]]

\* assemble_for_chunk, assembler.rs lines 153-172
assemble_for_chunk(nodes, edges, chunk_id, max_depth) ==
    LET found == find_nodes_by_chunk(nodes, chunk_id, 0)
    IN  IF found = <<>>
        THEN [ok |-> FALSE, primary_chunk |-> 0, related_chunks |-> <<>>]
        ELSE assemble_for_symbol_named(nodes, edges, nodes[found[1] + 1].name,
                                       max_depth)

\* the graphs: up to MaxNodes nodes named foo or bar, in chunks 1..MaxNodes,
\* with Calls edges from a node to the next
MaxNodes == 3
SymbolNames == {"foo", "bar"}
NodeArenas ==
    UNION {[1..n -> [name : SymbolNames, chunk_id : 1..MaxNodes]] : n \in 1..MaxNodes}
ChainEdges(nodes, linked) ==
    LET pick == {n \in linked : n + 1 < Len(nodes)}
        RECURSIVE chain(_)
        chain(n) == IF n >= Len(nodes) THEN <<>>
                    ELSE (IF n \in pick
                          THEN <<[source |-> n, target |-> n + 1,
                                  relationship |-> "Calls"]>>
                          ELSE <<>>) \o chain(n + 1)
    IN  chain(0)

AssembleChunkInit ==
    /\ callPc = "start"
    /\ callIn \in [nodes : NodeArenas, linked : SUBSET (0..(MaxNodes - 2)),
                   chunk_id : 1..MaxNodes, max_depth : {1, 2}]
    /\ callOut = <<>>

AssembleChunk ==
    /\ callPc = "start"
    /\ callOut' = assemble_for_chunk(callIn.nodes,
                      ChainEdges(callIn.nodes, callIn.linked),
                      callIn.chunk_id, callIn.max_depth)
    /\ callPc' = "done"
    /\ UNCHANGED callIn
    /\ UNCHANGED notCall

(***************************************************************************)
(* Specifications                                                          *)
(***************************************************************************)
SpecBatchInit == BatchInit /\ McpOff /\ WatcherOff /\ IndexOff /\ RefOff /\ CallOff
SpecBatch == SpecBatchInit /\ [][BatchNext]_vars

SpecMcpInit == McpInit /\ BatchOff /\ WatcherOff /\ IndexOff /\ RefOff /\ CallOff
SpecMcp == SpecMcpInit /\ [][McpNext]_vars

SpecWatcherInit == WatcherInit /\ BatchOff /\ McpOff /\ IndexOff /\ RefOff /\ CallOff
SpecWatcher == SpecWatcherInit /\ [][WatcherNext]_vars

SpecIndexInit == IndexInit /\ BatchOff /\ McpOff /\ WatcherOff /\ RefOff /\ CallOff
SpecIndex == SpecIndexInit /\ [][IndexNext]_vars

SpecIndexSeq == SpecIndexInit /\ [][IndexSeqNext]_vars

SpecRefInit == RefInit /\ BatchOff /\ McpOff /\ WatcherOff /\ IndexOff /\ CallOff
SpecRef == SpecRefInit /\ [][RefNext]_vars

OthersOff == BatchOff /\ McpOff /\ WatcherOff /\ IndexOff /\ RefOff

SpecTextSearchInit == TextSearchInit /\ OthersOff
SpecTextSearch == SpecTextSearchInit /\ [][TextSearchStep]_vars

SpecGrepInit == GrepInit /\ OthersOff
SpecGrep == SpecGrepInit /\ [][GrepContext]_vars

SpecFilterInit == FilterInit /\ OthersOff
SpecFilter == SpecFilterInit /\ [][FilterEvent]_vars

SpecAssembleInit == AssembleInit /\ OthersOff
SpecAssemble == SpecAssembleInit /\ [][Assemble]_vars

SpecStalenessInit == StalenessInit /\ OthersOff
SpecStaleness == SpecStalenessInit /\ [][AssessStaleness]_vars

SpecFusionInit == FusionInit /\ OthersOff
SpecFusion == SpecFusionInit /\ [][Fuse]_vars

SpecNormalizeInit == NormalizeInit /\ OthersOff
SpecNormalize == SpecNormalizeInit /\ [][Normalize]_vars

SpecWatcherLive ==
    /\ SpecWatcherInit
    /\ [][WatcherLiveNext]_vars
    /\ WF_vars(RecvEvent)
    /\ WF_vars(RecvTrigger)
    /\ WF_vars(CycleStart)
    /\ WF_vars(CycleFinish)
    /\ WF_vars(LiveTick)

SpecIndexClock == SpecIndexInit /\ [][IndexClockNext]_vars

SpecIndexFailing == SpecIndexInit /\ [][IndexFailingNext]_vars

SpecModelsInit == ModelsInit /\ OthersOff
SpecModels == SpecModelsInit /\ [][ModelsNext]_vars

SpecRelated == SpecAssembleInit /\ [][RelatedNodes]_vars

SpecGrepPages == SpecGrepInit /\ [][GrepPages]_vars

SpecFileSliceInit == FileSliceInit /\ OthersOff
SpecFileSlice == SpecFileSliceInit /\ [][FileSlicePages]_vars
\* the caller keeps calling: each call returns
SpecFileSliceLive ==
    /\ SpecFileSliceInit
    /\ [][FileSlicePages]_vars
    /\ WF_vars(FileSliceRequest)
    /\ WF_vars(FileSliceFirstPage)
    /\ WF_vars(FileSliceNextPage)

SpecTextSearchRewriteInit == TextSearchRewriteInit /\ OthersOff
SpecTextSearchRewrite == SpecTextSearchRewriteInit /\ [][TextSearchRewriteStep]_vars

SpecAssembleChunkInit == AssembleChunkInit /\ OthersOff
SpecAssembleChunk == SpecAssembleChunkInit /\ [][AssembleChunk]_vars

(***************************************************************************)
(* Properties                                                              *)
(***************************************************************************)
IsPrefix(a, b) == Len(a) <= Len(b) /\ SubSeq(b, 1, Len(a)) = a

\* C1: the envelope a batch finally returns has budget.used_chars <=
\* budget.max_chars, used_chars being the character count of the serialized
\* envelope; stated for the CLI service and for the MCP batch tool.
C1_FinalEnvelopeWithinBudget ==
    /\ bPc = "done" =>
          /\ output.used_chars = EnvelopeLen(output, output.used_chars, FALSE)
          /\ output.used_chars <= output.max_chars
    /\ mcpPc = "done" =>
          /\ mcpOut.used_chars = EnvelopeLen(mcpOut, mcpOut.used_chars, TRUE)
          /\ mcpOut.used_chars <= mcpOut.max_chars

\* C2: the context an item's `$ref`s were resolved against before its
\* dispatch holds, under each id, the recorded status, message and data of the
\* earlier item that carries this id (the first one: a later item repeating
\* the id is rejected), and holds nothing under an id no earlier item carries.
FirstHolder(id, k) ==
    CHOOSE j \in 1..(k - 1) :
        /\ processed[j].id = id
        /\ \A i \in 1..(j - 1) : processed[i].id # id

C2_RefContextHoldsEarlierItems ==
    \A k \in DOMAIN processed :
        processed[k].dispatched =>
            \A id \in ItemIds :
                IF \E j \in 1..(k - 1) : processed[j].id = id
                THEN processed[k].ctx[id] = processed[FirstHolder(id, k)].rec
                ELSE processed[k].ctx[id] = NoRec

BudgetErrorItem == error_item(overflow.item.id, "budget_exceeded")

C4_FailuresNeverAbort ==
    /\ bPc # "aborted"
    /\ (bPc = "done" /\ ~bCfg.stop_on_error /\ ~overflow.hit) => Len(processed) = bCfg.n
    /\ bCfg.stop_on_error =>
          \A k \in DOMAIN processed :
              processed[k].rec.status = "error" => k = Len(processed)

TriggerReceived ==
    /\ wPc = "select"
    /\ command_rx # <<>>
    /\ Head(command_rx) = "trigger"
    /\ command_rx' = Tail(command_rx)

\* C5: at most one index cycle runs at any time; a trigger sent while a
\* cycle runs starts no second cycle, stays queued over the end of the cycle
\* and, once received, marks the watcher dirty without starting a cycle in
\* that step.
C5_OneCycleAtATime ==
    [][ /\ running' > running => running = 0
        /\ (wPc = "indexing" /\ Len(command_rx') > Len(command_rx)) => running' = running
        /\ (wPc = "indexing" /\ wPc' = "select") => command_rx' = command_rx
        /\ TriggerReceived => (state'.dirty /\ running' = running) ]_vars

\* C5 witness: a trigger is queued while a cycle runs
C5_Witness ==
    /\ wPc = "indexing"
    /\ running = 1
    /\ command_rx # <<>>
    /\ Head(command_rx) = "trigger"

\* C6: a cycle caused only by fs events starts no earlier than `debounce`
\* after the last event received on a non-ignored path, unless
\* `max_batch_wait` has elapsed since the first event of the window.
C6_DebounceAfterLastEvent ==
    (wPc = "indexing" /\ ~state.force_immediate /\ lastRecv.some /\ windowFirst.some) =>
        \/ cycleAt.t >= lastRecv.t + wCfg.debounce
        \/ cycleAt.t >= windowFirst.t + wCfg.max_batch_wait

\* C7: an idle watcher with an open window has not let more than
\* `max_batch_wait` pass since the first event of that window: the cycle
\* starts no later than that.
C7_CycleWithinMaxBatchWait ==
    (wPc = "select" /\ windowFirst.some) => now <= windowFirst.t + wCfg.max_batch_wait

\* C7 witness: a cycle started exactly max_batch_wait after the first event
\* of its window although the debounce after the last event had not elapsed
C7_Witness ==
    /\ wPc = "indexing"
    /\ ~state.force_immediate
    /\ windowFirst.some
    /\ cycleAt.t = windowFirst.t + wCfg.max_batch_wait
    /\ cycleAt.t < state.last_event.t + wCfg.debounce

\* C8: once an idle watcher has received a manual trigger no time passes
\* before the cycle starts: it waits for neither deadline.
C8_TriggerFiresImmediately ==
    (wPc = "select" /\ trigAt.some) => now = trigAt.t

\* C8 witness: a triggered cycle started before the debounce of the fs events
\* of its window had elapsed
C8_Witness ==
    /\ wPc = "indexing"
    /\ state.force_immediate
    /\ state.last_event.some
    /\ cycleAt.t < state.last_event.t + wCfg.debounce
    /\ cycleAt.t < state.first_event.t + wCfg.max_batch_wait

\* C9: after the last handle is dropped no index cycle starts.
C9_NoCycleAfterDrop ==
    [][handles = 0 => running' <= running]_vars

\* C10: two index operations on one project root are never inside their
\* read-modify-write of corpus, store and mtimes at the same time.
C10_IndexRunsExclusive ==
    \A r1, r2 \in Runners :
        r1 # r2 => (iPc[r1] = "idle" \/ iPc[r2] = "idle")

\* the step with which runner r's run returns Ok(stats)
FinishesOk(r) == iPc[r] # "idle" /\ iPc'[r] = "idle" /\ lastRun'.result = "ok"

\* C11: when an index run returns successfully, every chunk the persisted
\* store references (file and the version of the file the chunk ids were
\* cut from) is a chunk of the persisted corpus.
C11_StoreChunksInCorpus ==
    [][\A r \in Runners :
          FinishesOk(r) =>
              \A f \in Files :
                  storeDisk'.chunks[f] # 0 => corpusDisk'.chunks[f] = storeDisk'.chunks[f]]_vars

\* C12: when an index run returns successfully a watermark is persisted next
\* to the primary model's store, and it is the project watermark of the
\* files the run scanned (stated where the files have not changed since the
\* scan, so that the watermark of the scan is the watermark of the disk).
C12_WatermarkPersisted ==
    [][\A r \in Runners :
          FinishesOk(r) =>
              /\ watermarkDisk'.exists
              /\ ~iLoc[r].touched =>
                     watermarkDisk'.mark = compute_project_watermark(disk')]_vars

\* C13: when an index run that loaded the prior corpus (no rebuild from
\* scratch) returns successfully, neither the persisted corpus nor the
\* persisted store holds a chunk of a file its scan no longer found on disk.
C13_MissingFilesPurged ==
    [][\A r \in Runners :
          (FinishesOk(r) /\ ~iLoc[r].corpus_full_rebuild) =>
              \A f \in Files \ iLoc[r].live :
                  corpusDisk'.chunks[f] = 0 /\ storeDisk'.chunks[f] = 0]_vars

\* the step with which runner r's run settles which files changed
Plans(r) ==
    \/ iPc[r] = "scanned" /\ iPc'[r] = "planned"
    \/ iPc[r] = "single_loaded" /\ iPc'[r] = "single_filtered"

\* the run of r was asked for a full rebuild, or could not load the store
NotIncremental(r) ==
    \/ iLoc[r].force_full
    \/ iPc[r] = "single_loaded" /\ ~iLoc[r].has_mtimes
          /\ corpusDisk.exists /\ storeDisk.exists

\* the last run returned Ok and the project files are as it scanned them
AfterStableRun == lastRun.result = "ok" /\ lastRun.stable

C15_FileErrorsDoNotFailRun ==
    [][\A r \in Runners :
          (iPc[r] # "idle" /\ iPc'[r] = "idle") =>
              /\ lastRun'.result = "ok"
              /\ \A f \in iLoc[r].changed_files \ iLoc[r].processed_errs :
                    iLoc[r].processed_by_rel[f] # 0 =>
                        /\ corpusDisk'.chunks[f] = iLoc[r].processed_by_rel[f]
                        /\ storeDisk'.chunks[f] = iLoc[r].processed_by_rel[f]]_vars

\* the step that handles one more item of the batch
HandlesItem == Len(processed') = Len(processed) + 1

\* the item just handled has an empty id, the id of an earlier item of the
\* batch, or the action Batch
Rejectable(e) ==
    \/ e.id = ""
    \/ \E j \in 1..Len(processed) : processed[j].id = e.id
    \/ e.action = "batch"

\* C16 as stated: an item with an empty id, with the id of an earlier item or
\* with the action Batch is not dispatched, its result is an error item, and
\* the loop goes on to the next item unless stop_on_error is set.
C16_InvalidItemsRejected ==
    [][HandlesItem =>
          LET e == processed'[Len(processed')]
          IN Rejectable(e) =>
                /\ ~e.dispatched
                /\ e.rec.status = "error"
                /\ bPc' = IF bCfg.stop_on_error THEN "break" ELSE "loop"]_vars

\* C16 amended: the same, except that the loop also stops when the error
\* item does not fit the budget any more.
C16_InvalidItemsRejectedWithinBudget ==
    [][HandlesItem =>
          LET e == processed'[Len(processed')]
          IN Rejectable(e) =>
                /\ ~e.dispatched
                /\ e.rec.status = "error"
                /\ bPc' = IF bCfg.stop_on_error \/ ~e.pushed THEN "break" ELSE "loop"
                /\ e.pushed => output'.items[Len(output'.items)] =
                                   error_item(e.id, e.rec.msg)]_vars

\* C16 witness: a batch without stop_on_error has rejected an item for its
\* duplicate id and has handled another item after it
C16_Witness ==
    /\ ~bCfg.stop_on_error
    /\ \E k \in 1..Len(processed) :
        /\ k < Len(processed)
        /\ processed[k].rec.msg = "duplicate"
        /\ \E j \in 1..(k - 1) : processed[j].id = processed[k].id
        /\ ~processed[k].dispatched
        /\ processed[k].pushed

\* payload.project, or else the project named by the first item handled so
\* far whose payload names one
FirstNamedProject ==
    IF bCfg.project # "none" THEN bCfg.project
    ELSE LET naming == {j \in 1..Len(processed) : processed[j].project # "none"}
         IN IF naming = {} THEN "none"
            ELSE processed[CHOOSE j \in naming : \A i \in naming : j <= i].project

FailedKeys(ctx) ==
    {key \in DOMAIN ctx.m["items"].m : ctx.m["items"].m[key].m["status"] = Str(<<"error">>)}

\* C18: a `$ref` without `$default` whose pointer goes through
\* items/<id>/data of an item recorded with status "error" does not resolve:
\* resolve_batch_refs returns the Err that names <id> and carries the message
\* recorded for it.
C18_RefToFailedItemFails ==
    rPc # "input" =>
        \A key \in FailedKeys(rCtx) :
            \A pointer \in PointersThrough(key) :
                rInput \in {Wrap(Ref(pointer)), Arr(<<Ref(pointer), Num(7)>>)} =>
                    /\ ~rOut.ok
                    /\ rOut.err = [kind |-> "failed_item", id |-> key,
                                   msg |-> rCtx.m["items"].m[key].m["message"].s]

\* C18 witness: the ref "#/items/a~1b/data/v" was resolved against a context
\* that records the item "a/b" as failed, and the Err names "a/b"
C18_Witness ==
    /\ rPc = "resolved"
    /\ rInput = Wrap(Ref(PData(<<"a", "~", "1", "b">>) \o <<"/", "v">>))
    /\ "a/b" \in FailedKeys(rCtx)
    /\ ~rOut.ok
    /\ rOut.err.id = "a/b"
    /\ rOut.err.msg = <<"boom">>

\* the ids whose data a pointer cannot reach in a context: the ids it does not
\* record and the ids it records as failed
MissingOrFailed(ctx) ==
    ((RefItemKeys \cup {"missing"}) \ DOMAIN ctx.m["items"].m) \cup FailedKeys(ctx)

\* C19 (as stated): a wrapper that carries `$default` is replaced by the
\* default value itself, with no error, whenever its pointer names a missing
\* key or goes through the data of a failed item.
C19_DefaultReplacesWrapper ==
    rPc # "input" =>
        \A key \in MissingOrFailed(rCtx) :
            \A pointer \in PointersThrough(key) :
                \A d \in RefDefaults :
                    rInput = Wrap(RefD(pointer, d)) =>
                        /\ rOut.ok
                        /\ rOut.v = Wrap(d)

\* C19 (amended): under the same condition the wrapper is replaced by what the
\* default resolves to against the same context: a default that holds no
\* `$ref` is used as it is, with no error, and a default that is itself a
\* `$ref` resolves, or fails, as that ref does.
C19_DefaultIsResolved ==
    rPc # "input" =>
        \A key \in MissingOrFailed(rCtx) :
            \A pointer \in PointersThrough(key) :
                \A d \in RefDefaults :
                    rInput = Wrap(RefD(pointer, d)) =>
                        /\ d \in {Num(42), Null} => rOut = RefOk(Wrap(d))
                        /\ ResolveBatchRefs(d, rCtx).ok =>
                               rOut = RefOk(Wrap(ResolveBatchRefs(d, rCtx).v))
                        /\ ~ResolveBatchRefs(d, rCtx).ok =>
                               rOut = ResolveBatchRefs(d, rCtx)

\* C19 witness: the pointer goes through the data of the failed item "bad",
\* the wrapper carries the default 42, and the payload resolved to {"x": 42}
C19_Witness ==
    /\ rPc = "resolved"
    /\ "bad" \in FailedKeys(rCtx)
    /\ rInput = Wrap(RefD(PData(<<"bad">>), Num(42)))
    /\ rOut = RefOk(Wrap(Num(42)))

\* the key sets of the objects inside a value that have a `$ref` key
RECURSIVE RefObjects(_)
RefObjects(v) ==
    CASE v.t = "arr" -> UNION {RefObjects(v.a[i]) : i \in 1..Len(v.a)}
      [] v.t = "obj" ->
            (IF "$ref" \in DOMAIN v.m THEN {DOMAIN v.m} ELSE {})
                \cup UNION {RefObjects(v.m[k]) : k \in DOMAIN v.m}
      [] OTHER -> {}

\* C20 (as stated): a payload that resolved holds no `$ref` any more, and
\* resolving it a second time against the same context returns it unchanged.
C20_ResolvedHasNoRef ==
    (rPc # "input" /\ rOut.ok) =>
        /\ RefObjects(rOut.v) = {}
        /\ rPc = "again" => rOut2 = rOut

\* C20 (amended): a payload that resolved holds no `$ref` wrapper any more,
\* that is no object whose only keys are `$ref`, or `$ref` and `$default`; an
\* object that has `$ref` next to another key is kept with its `$ref`.
\* Resolving the resolved payload a second time against the same context
\* returns it unchanged.
C20_ResolvedHasNoRefWrapper ==
    (rPc # "input" /\ rOut.ok) =>
        /\ RefObjects(rOut.v) \cap {{"$ref"}, {"$ref", "$default"}} = {}
        /\ RefObjects(rInput) \cap {{"$ref", "other"}} # {} =>
               {"$ref", "other"} \in RefObjects(rOut.v)
        /\ rPc = "again" => rOut2 = rOut

\* C20 witness: {"x": {"$ref": "#/items/a/data"}} resolved to the data of the
\* item "a", and the second resolution returned the same payload
C20_Witness ==
    /\ rPc = "again"
    /\ rInput = Wrap(Ref(PData(<<"a">>)))
    /\ rOut.ok
    /\ rOut.v = Wrap(rCtx.m["items"].m["a"].m["data"])
    /\ rOut.v # rInput
    /\ rOut2 = rOut

\* C21: resolve_batch_refs returns for every payload and context, with a
\* value or with an error, and a ref to an item whose data is a ref to itself
\* ends with the max depth error.
C21_ResolutionTerminates ==
    rPc # "input" =>
        /\ rOut.ok \/ rOut.err.kind # "none"
        /\ \A pointer \in PointersThrough("cyc") \ {PData(<<"cyc">>) \o <<"/", "v">>} :
               (rInput \in {Wrap(Ref(pointer)), Arr(<<Ref(pointer), Num(7)>>)}
                    /\ "cyc" \in DOMAIN rCtx.m["items"].m)
                   => rOut = RefErr("max_depth", "", <<>>)

\* C21 witness: the context records the item "cyc", whose data is a ref to
\* its own data, and resolving a ref to it ended with the max depth error
C21_Witness ==
    /\ rPc = "resolved"
    /\ "cyc" \in DOMAIN rCtx.m["items"].m
    /\ rCtx.m["items"].m["cyc"].m["data"] = Ref(PData(<<"cyc">>))
    /\ rInput = Wrap(Ref(PData(<<"cyc">>)))
    /\ rOut = RefErr("max_depth", "", <<>>)

\* the matches one call returns when nothing cuts it short
FullMatches ==
    text_search(callIn.corpus, [callIn.request EXCEPT !.max_results = 1000]).matches

\* C22: while the caller follows next_cursor with the parameters of the first
\* call, the pages returned so far, concatenated, are the leading part of the
\* full match list: no match twice, none skipped.
C22_PagesArePrefixOfFullList ==
    callPc = "paging" =>
        /\ callOut.result.error = "none"
        /\ Len(callOut.pages) <= Len(FullMatches)
        /\ callOut.pages = SubSeq(FullMatches, 1, Len(callOut.pages))
        /\ callOut.result.next_cursor = <<>> => callOut.pages = FullMatches

\* the same, for corpora whose chunks share no line
C22_HoldsWithoutSharedLines ==
    (\A c, d \in callIn.corpus[1].chunks :
        c # d => c.end_line < d.start_line \/ d.end_line < c.start_line)
        => C22_PagesArePrefixOfFullList

\* C23 (as stated): a request that presents the cursor with any search
\* parameter changed is rejected as an invalid cursor and returns no matches.
C23_ChangedRequestRejected ==
    callPc = "changed" =>
        /\ callOut.result.error = "invalid_cursor"
        /\ callOut.result.matches = <<>>

\* the parameters the cursor records are those of the request
SameAsIssued(request) ==
    /\ request.path = callIn.request.path
    /\ trim(request.pattern) = trim(callIn.request.pattern)
    /\ request.file_pattern = callIn.request.file_pattern
    /\ request.case_sensitive = callIn.request.case_sensitive
    /\ request.whole_word = callIn.request.whole_word

\* C23 (amended): the cursor is accepted with the parameters it was issued
\* for, and a request that presents it with another root, pattern,
\* file_pattern, case_sensitive or whole_word is rejected as an invalid cursor
\* and returns no matches.  max_results is not recorded in the cursor, and the
\* pattern is compared after trimming: a request that changes only these is
\* accepted and the search goes on from the cursor.
C23_ChangedRecordedParameterRejected ==
    /\ callPc = "paging" => callOut.result.error = "none"
    /\ callPc = "changed" =>
        IF SameAsIssued(callOut.request)
        THEN callOut.result.error = "none"
        ELSE /\ callOut.result.error = "invalid_cursor"
             /\ callOut.result.matches = <<>>

\* C23 witness: the first page was cut short, its cursor was presented with
\* the pattern "bar" instead of "foo", and the call was rejected
C23_Witness ==
    /\ callPc = "changed"
    /\ callIn.request.pattern = "foo"
    /\ callOut.request.pattern = "bar"
    /\ callOut.request.cursor # <<>>
    /\ Len(callOut.pages) > 0
    /\ callOut.result.error = "invalid_cursor"
    /\ callOut.result.matches = <<>>

\* the match lines the hunks returned list
ListedMatches == UNION {{callOut.hunks[i].match_lines[k] :
                            k \in 1..Len(callOut.hunks[i].match_lines)} :
                        i \in 1..Len(callOut.hunks)}

\* C24: the hunks returned for a file are in line order, pairwise disjoint and
\* non-adjacent; the match lines of a hunk lie inside it, in ascending order
\* and each once; two listed matches whose windows touch or overlap are in the
\* same hunk; and matches on lines 5 and 7 with before = after = 2 give one
\* hunk from line 3 to line 9 with match_lines [5, 7].
C24_HunksMergedAndDisjoint ==
    callPc = "done" =>
        /\ \A i, j \in 1..Len(callOut.hunks) :
               i < j => callOut.hunks[i].end_line + 1 < callOut.hunks[j].start_line
        /\ \A i \in 1..Len(callOut.hunks) :
               LET h == callOut.hunks[i] IN
               /\ \A k \in 1..Len(h.match_lines) :
                      /\ h.start_line <= h.match_lines[k]
                      /\ h.match_lines[k] <= h.end_line
                      /\ h.match_lines[k] \in callIn.matching
               /\ \A k, l \in 1..Len(h.match_lines) :
                      k < l => h.match_lines[k] < h.match_lines[l]
        /\ \A l1, l2 \in ListedMatches :
               (l1 < l2 /\ l2 - callIn.before <= l1 + callIn.after + 1) =>
                   \E i \in 1..Len(callOut.hunks) :
                       /\ callOut.hunks[i].start_line <= l1
                       /\ l2 <= callOut.hunks[i].end_line
        /\ (callIn.matching = {5, 7} /\ callIn.before = 2 /\ callIn.after = 2
               /\ callIn.resume_line = 1 /\ callIn.limits.max_chars = 100
               /\ callIn.limits.max_hunks = 100) =>
               callOut.hunks = <<[start_line |-> 3, end_line |-> 9,
                                  match_lines |-> <<5, 7>>]>>

\* C24 witness: lines 5 and 7 match, before = after = 2, and the call
\* returned the one hunk 3..9
C24_Witness ==
    /\ callPc = "done"
    /\ callIn.matching = {5, 7}
    /\ callIn.before = 2 /\ callIn.after = 2
    /\ Len(callOut.hunks) = 1
    /\ callOut.hunks[1] = [start_line |-> 3, end_line |-> 9, match_lines |-> <<5, 7>>]

\* one of the directories the path goes through below the project root is an
\* ignored directory
InsideIgnoreSet(path) ==
    /\ path.inside
    /\ \E i \in 1..(Len(path.comps) - 1) : path.comps[i] \in IGNORED

\* C25: an event on one path is discarded (handle_event returns false and the
\* state is not dirty) exactly when the path lies inside the ignore set.
C25_DiscardedIffInsideIgnoreSet ==
    (callPc = "done" /\ callIn.ok /\ Len(callIn.paths) = 1) =>
        /\ callOut.st.dirty = callOut.changed
        /\ ~callOut.changed <=> InsideIgnoreSet(callIn.paths[1])

\* the fixed rank of the relationship kinds
FixedRank ==
    [Calls |-> 1, Uses |-> 2, Contains |-> 3, Extends |-> 4, Imports |-> 5, TestedBy |-> 6]

\* path a is not after path b: a is a prefix of b, or at the first place where
\* they differ a holds the kind of lower rank
PathNotAfter(a, b) ==
    \/ Len(a) <= Len(b) /\ \A k \in 1..Len(a) : a[k] = b[k]
    \/ \E k \in 1..Len(a) :
        /\ k <= Len(b)
        /\ \A l \in 1..(k - 1) : a[l] = b[l]
        /\ FixedRank[a[k]] < FixedRank[b[k]]

\* a is not after b in the order of the related chunks: relevance descending,
\* then distance, file_path, start_line and end_line ascending, then the
\* relationship path
NotAfter(a, b) ==
    LET ra == a.relevance_score.num * b.relevance_score.den
        rb == b.relevance_score.num * a.relevance_score.den
        fa == IF a.chunk.file_path = "a.rs" THEN 1 ELSE 2
        fb == IF b.chunk.file_path = "a.rs" THEN 1 ELSE 2
    IN  \/ ra > rb
        \/ ra = rb /\ a.distance < b.distance
        \/ ra = rb /\ a.distance = b.distance /\ fa < fb
        \/ ra = rb /\ a.distance = b.distance /\ fa = fb
              /\ a.chunk.start_line < b.chunk.start_line
        \/ ra = rb /\ a.distance = b.distance /\ fa = fb
              /\ a.chunk.start_line = b.chunk.start_line
              /\ a.chunk.end_line < b.chunk.end_line
        \/ ra = rb /\ a.distance = b.distance /\ a.chunk = b.chunk
              /\ PathNotAfter(a.relationship, b.relationship)

\* C26: the related chunks of an assembled context are in the order relevance
\* descending, distance, file_path, start_line, end_line ascending, then
\* relationship path under the rank Calls < Uses < Contains < Extends <
\* Imports < TestedBy.
C26_RelatedChunksOrdered ==
    callPc = "done" =>
        /\ \A i, j \in 1..Len(callOut.related_chunks) :
               i < j => NotAfter(callOut.related_chunks[i], callOut.related_chunks[j])
        /\ \A i, j \in 1..Len(callOut.other_related_chunks) :
               i < j => NotAfter(callOut.other_related_chunks[i],
                                 callOut.other_related_chunks[j])

\* C26 witness: two symbols of the chunk b.rs:3-4 were reached at distance 2
\* with the same relevance, and the one reached by [Calls, Uses] comes right
\* before the one reached by [Uses, Calls]
C26_Witness ==
    /\ callPc = "done"
    /\ Len(callOut.related_chunks) = 4
    /\ \E i \in 1..3 :
        /\ callOut.related_chunks[i].chunk = callOut.related_chunks[i + 1].chunk
        /\ callOut.related_chunks[i].distance = 2
        /\ callOut.related_chunks[i + 1].distance = 2
        /\ callOut.related_chunks[i].relationship = <<"Calls", "Uses">>
        /\ callOut.related_chunks[i + 1].relationship = <<"Uses", "Calls">>

\* C27: a graph with the same nodes and edges, the edges inserted in another
\* order, yields the same related chunks: the same distances, relationship
\* paths and order.
C27_InsertionOrderIrrelevant ==
    callPc = "done" => callOut.other_related_chunks = callOut.related_chunks

ReasonOf(reason) == \E i \in 1..Len(callOut.reasons) : callOut.reasons[i] = reason

\* C28: assess_staleness reports stale exactly when its reason list is
\* non-empty; IndexMissing iff the index does not exist, IndexCorrupt iff it is
\* corrupt, WatermarkMissing iff the index exists and has no watermark; for two
\* Git watermarks GitHeadMismatch iff the heads differ and GitDirtyMismatch iff
\* the dirty flags differ; for two Filesystem watermarks FilesystemChanged iff
\* file_count, max_mtime_ms or total_bytes differ; FilesystemChanged when the
\* watermarks are of different kinds; no reason is listed twice.
C28_StaleReasonsExact ==
    callPc = "done" =>
        LET project == callIn.project_watermark
            has == callIn.index_watermark.some
            index_mark == callIn.index_watermark.t
            both(kind) == has /\ index_mark.kind = kind /\ project.kind = kind
        IN  /\ callOut.stale <=> (callOut.reasons # <<>>)
            /\ \A i, j \in 1..Len(callOut.reasons) :
                   i # j => callOut.reasons[i] # callOut.reasons[j]
            /\ ReasonOf("IndexMissing") <=> ~callIn.index_exists
            /\ ReasonOf("IndexCorrupt") <=> callIn.index_corrupt
            /\ ReasonOf("WatermarkMissing") <=> (callIn.index_exists /\ ~has)
            /\ ReasonOf("GitHeadMismatch") <=>
                   (both("git") /\ index_mark.git_head # project.git_head)
            /\ ReasonOf("GitDirtyMismatch") <=>
                   (both("git") /\ index_mark.git_dirty # project.git_dirty)
            /\ ReasonOf("FilesystemChanged") <=>
                   \/ has /\ index_mark.kind # project.kind
                   \/ /\ both("filesystem")
                      /\ \/ index_mark.file_count # project.file_count
                         \/ index_mark.max_mtime_ms # project.max_mtime_ms
                         \/ index_mark.total_bytes # project.total_bytes

\* C28 witness: an absent index without a watermark was assessed and is stale
\* for the one reason IndexMissing
C28_Witness ==
    /\ callPc = "done"
    /\ ~callIn.index_exists /\ ~callIn.index_corrupt
    /\ ~callIn.index_watermark.some
    /\ callOut = [stale |-> TRUE, reasons |-> <<"IndexMissing">>]

\* weight / (k + rank) for the chunk idx in one list, rank counted from base;
\* nothing when the list does not hold the chunk
RrfTerm(results, idx, weight, k, base) ==
    IF \E i \in 1..Len(results) : results[i] = idx
    THEN LET i == CHOOSE i \in 1..Len(results) : results[i] = idx
         IN  [num |-> weight, den |-> k + i - 1 + base]
    ELSE [num |-> 0, den |-> 1]

\* C29: the fused score of a chunk is the sum over the semantic and the fuzzy
\* list of weight_i / (k_i + rank_i), with k = 60 for the semantic list and
\* k = 100 for the fuzzy list (ranks counted from 0 or from 1), and the fused
\* list is sorted by that score descending.
C29_FusedScoreIsWeightedRrf ==
    callPc = "done" =>
        /\ \A i, j \in 1..Len(callOut) :
               i < j => ~FracLess(callOut[i].score, callOut[j].score)
        /\ \E base \in {0, 1} :
               \A i \in 1..Len(callOut) :
                   FracEq(callOut[i].score,
                          FracAdd(RrfTerm(callIn.semantic_results, callOut[i].idx,
                                          callIn.weights.semantic, 60, base),
                                  RrfTerm(callIn.fuzzy_results, callOut[i].idx,
                                          callIn.weights.fuzzy, 100, base)))

\* the same with the one k the code uses for both lists: 100
FusedScoreIsRrfWithOneK ==
    callPc = "done" =>
        /\ \A i, j \in 1..Len(callOut) :
               i < j => ~FracLess(callOut[i].score, callOut[j].score)
        /\ \A i \in 1..Len(callOut) :
               FracEq(callOut[i].score,
                      FracAdd(RrfTerm(callIn.semantic_results, callOut[i].idx,
                                      callIn.weights.semantic, 100, 1),
                              RrfTerm(callIn.fuzzy_results, callOut[i].idx,
                                      callIn.weights.fuzzy, 100, 1)))

FiniteUnits == {callIn[i].v : i \in {j \in 1..Len(callIn) : is_finite(callIn[j])}}
\* the largest distance between two finite scores of the input
FiniteSpread ==
    LET spreads == {x - y : x \in FiniteUnits, y \in FiniteUnits}
    IN  CHOOSE d \in spreads \cup {0} : \A e \in spreads : e <= d
IsScore(score, n) == score.k = "fin" /\ score.num = n * score.den
InUnitRange(score) ==
    score.k = "fin" /\ score.den > 0 /\ 0 <= score.num /\ score.num <= score.den

\* C30: normalization maps every score into [0, 1]; when all scores are equal
\* within MIN_DELTA every score becomes 1.0; every non-finite score becomes 0.
C30_NormalizedScores ==
    callPc = "done" =>
        /\ Len(callOut) = Len(callIn)
        /\ \A i \in 1..Len(callOut) : InUnitRange(callOut[i])
        /\ FiniteSpread < MIN_DELTA =>
               \A i \in 1..Len(callOut) :
                   is_finite(callIn[i]) => IsScore(callOut[i], 1)
        /\ \A i \in 1..Len(callOut) :
               ~is_finite(callIn[i]) => IsScore(callOut[i], 0)

\* C30 as the code has it: normalization maps every score into [0, 1]; when
\* all finite scores are equal within MIN_DELTA every finite score becomes
\* 1.0; a non-finite score becomes 0, except that it becomes 1.0 like every
\* other score when the finite scores differ by at least f32::EPSILON and by
\* less than MIN_DELTA.
C30_NonFiniteIsZeroUnlessTinySpread ==
    callPc = "done" =>
        /\ Len(callOut) = Len(callIn)
        /\ \A i \in 1..Len(callOut) : InUnitRange(callOut[i])
        /\ FiniteSpread < MIN_DELTA =>
               \A i \in 1..Len(callOut) :
                   is_finite(callIn[i]) => IsScore(callOut[i], 1)
        /\ \A i \in 1..Len(callOut) :
               ~is_finite(callIn[i]) =>
                   IF EPSILON <= FiniteSpread /\ FiniteSpread < MIN_DELTA
                   THEN IsScore(callOut[i], 1)
                   ELSE IsScore(callOut[i], 0)

\* C30 witness: two finite scores 4 units apart and an infinite one were
\* normalized, and all three became 1.0
C30_Witness ==
    /\ callPc = "done"
    /\ Len(callIn) = 3
    /\ FiniteSpread = 4
    /\ \E i \in 1..3 : callIn[i].k = "inf"
    /\ \A i \in 1..3 : IsScore(callOut[i], 1)

\* the channels hold a manual trigger, or an fs event that names a path
\* outside the ignore set
AcceptedOutsideIgnoreSet ==
    \/ \E i \in 1..Len(command_rx) : command_rx[i] = "trigger"
    \/ \E i \in 1..Len(event_rx) :
         /\ event_rx[i].ok
         /\ \E j \in 1..Len(event_rx[i].paths) : ~InsideIgnoreSet(event_rx[i].paths[j])

\* C31: every fs event on a non-ignored path and every manual trigger accepted
\* by a live watcher is eventually followed by an index cycle that starts
\* after the event or trigger was accepted: accepted while a cycle runs it is
\* still waiting when the loop is back in select!, and waiting in select! it
\* is followed by the start of a cycle.
C31_AcceptedIsEventuallyIndexed ==
    /\ (AcceptedOutsideIgnoreSet /\ wPc = "indexing")
           ~> (AcceptedOutsideIgnoreSet /\ wPc = "select")
    /\ (AcceptedOutsideIgnoreSet /\ wPc = "select") ~> (wPc = "indexing")

\* the same for the events that name a path is_relevant_path lets through:
\* these, and the triggers, are followed by a cycle, also when they arrive
\* while a cycle is running or repeat a path of the de-duplication window
AcceptedByFilter ==
    \/ \E i \in 1..Len(command_rx) : command_rx[i] = "trigger"
    \/ \E i \in 1..Len(event_rx) : OnRelevantPath(event_rx[i])
FilteredIsEventuallyIndexed ==
    /\ (AcceptedByFilter /\ wPc = "indexing") ~> (AcceptedByFilter /\ wPc = "select")
    /\ (AcceptedByFilter /\ wPc = "select") ~> (wPc = "indexing")

\* C32: rejecting an item because its id duplicates an earlier item leaves the
\* result recorded for that earlier item untouched: right after the rejection
\* the context still holds, under the id, what the first item with that id
\* recorded, so a later `$ref` to #/items/<id>/data resolves to its data.
C32_DuplicateLeavesEarlierResult ==
    \A k \in DOMAIN processed :
        (k = Len(processed) /\ processed[k].rec.msg = "duplicate") =>
            ref_context.items[processed[k].id] =
                processed[FirstHolder(processed[k].id, k)].rec

\* C33: every file whose content changed after an index run is re-chunked by
\* the next incremental run, also when the change keeps the mtime within the
\* same whole second or leaves an mtime not newer than the recorded one: when
\* a run returns Ok, the files being as it scanned them, the corpus holds the
\* chunks of the present content of every file.
C33_ChangedFilesRechunked ==
    [][\A r \in Runners :
          (FinishesOk(r) /\ ~iLoc[r].touched) =>
              \A f \in iLoc[r].live :
                  corpusDisk'.chunks[f] = disk[f].content]_vars

\* C34: a file whose reading or chunking failed during an index run is never
\* recorded as up to date: when the run returns, the persisted mtimes hold no
\* entry for it that makes the next incremental run pass it over, so the file
\* is attempted again even if it is not modified in between.
C34_FailedFileNotUpToDate ==
    [][\A r \in Runners :
          FinishesOk(r) =>
              \A f \in iLoc[r].processed_errs :
                  disk'[f].exists =>
                      ~(mtimesDisk'.m[f] # 0 /\ disk'[f].mtime <= mtimesDisk'.m[f])]_vars

\* every chunk the store of model m references (file and the version of the
\* file its chunk ids were cut from) is a chunk of the shared corpus
StoreWithinCorpus(m) ==
    \A f \in Files :
        callOut.store[m].chunks[f] # 0 =>
            callOut.corpus.chunks[f] = callOut.store[m].chunks[f]

\* C35: after index_models has run for only a subset of the models, the
\* stores of the models that did not take part still reference only chunk ids
\* that exist in the shared corpus the run rewrote.
C35_OtherStoresWithinCorpus ==
    callPc = "models" => \A m \in ModelIds \ callIn.models : StoreWithinCorpus(m)

\* the stores of the models that took part in the last run do
RunStoresWithinCorpus ==
    callPc = "models" =>
        \A m \in callIn.models : callOut.store[m].exists => StoreWithinCorpus(m)

\* the nodes a directed path of at most k edges leads to from node 0
RECURSIVE ReachedWithin(_)
ReachedWithin(k) ==
    IF k = 0 THEN {0}
    ELSE LET nearer == ReachedWithin(k - 1)
         IN  nearer \cup {callIn.edges[i].target :
                             i \in {j \in 1..Len(callIn.edges) :
                                       callIn.edges[j].source \in nearer}}

\* C36: get_related_nodes(node, max_depth) returns every node other than
\* `node` that a directed path of at most max_depth edges reaches from it,
\* each exactly once, and the distance reported for a node is the length of a
\* shortest such path, with a relationship path of that length.
C36_RelatedNodesAreShortest ==
    callPc = "done" =>
        /\ {callOut[i].node : i \in 1..Len(callOut)} = ReachedWithin(callIn.max_depth) \ {0}
        /\ \A i, j \in 1..Len(callOut) : i # j => callOut[i].node # callOut[j].node
        /\ \A i \in 1..Len(callOut) :
               /\ callOut[i].node \in ReachedWithin(callOut[i].depth)
               /\ callOut[i].node \notin ReachedWithin(callOut[i].depth - 1)
               /\ Len(callOut[i].path) = callOut[i].depth

\* the match lines the pages returned so far list
PagedMatches ==
    UNION { UNION { { callOut[pg].hunks[i].match_lines[k] :
                        k \in 1..Len(callOut[pg].hunks[i].match_lines) } :
                    i \in 1..Len(callOut[pg].hunks) } :
            pg \in 1..Len(callOut) }

\* C37: whenever grep_context reports truncated = true, whichever of
\* max_matches, max_hunks and max_chars was hit, it returns a next_cursor, and
\* resuming from the cursor yields the matches left out: once a page comes back
\* without truncation the pages together list every match from the first
\* resume line on.
C37_TruncatedHasCursor ==
    callPc = "paging" =>
        /\ \A pg \in 1..Len(callOut) :
               callOut[pg].truncated # "no" => callOut[pg].next_cursor_state # <<>>
        /\ callOut[Len(callOut)].truncated = "no" =>
               PagedMatches = {l \in callIn.matching : l >= callIn.resume_line}

\* the pages cut by max_hunks do hold a cursor, and with max_matches and
\* max_chars out of reach following it lists every match
CutByHunksHasCursor ==
    callPc = "paging" =>
        /\ \A pg \in 1..Len(callOut) :
               callOut[pg].truncated = "hunks" => callOut[pg].next_cursor_state # <<>>
        /\ (/\ callIn.limits.max_matches > FileLines
            /\ callIn.limits.max_chars > 2 * FileLines
            /\ callOut[Len(callOut)].truncated = "no") =>
               PagedMatches = {l \in callIn.matching : l >= callIn.resume_line}

\* a page that makes progress: a line returned, or a cursor after its start
PageAdvances ==
    \/ callOut.returned_lines >= 1
    \/ /\ callOut.next_cursor # <<>>
       /\ callOut.next_cursor[1].next_byte_offset > callOut.start_byte_offset

\* C38: paging through a file with file_slice by following next_cursor always
\* terminates: every truncated page returns at least one line or a cursor
\* strictly after the position it started from, and a page with
\* truncated = false is reached.
C38_PagingTerminates ==
    /\ [](callPc = "paging" /\ callOut.truncated # "no" => PageAdvances)
    /\ <>(callPc = "paging" /\ callOut.truncated = "no")

\* a file that fits max_chars as a whole is paged to its end
PagingTerminatesWhenFileFits ==
    (callPc = "start" /\ Len(callIn.file) <= clamp(callIn.max_chars, 1, MAX_MAX_CHARS))
        ~> (callPc = "paging" /\ callOut.truncated = "no")

\* the files the rewrite left as they were
UnchangedFiles ==
    { callIn.corpus[i].name : i \in { j \in 1..Len(callIn.corpus) :
          \E k \in 1..Len(callIn.old[1]) : callIn.old[1][k] = callIn.corpus[j] } }

\* the matches of the request in the corpus as it is now
MatchesNow ==
    text_search(callIn.corpus, [callIn.request EXCEPT !.max_results = 1000]).matches

\* C39: if the corpus is rewritten by an index run between two pages of a
\* text_search, following the cursor issued before the run is either rejected
\* or continues so that no match already returned is returned again and no
\* match in an unchanged file is skipped.
C39_CursorSurvivesRewrite ==
    (/\ callPc = "paging"
     /\ callIn.old # <<>>
     /\ callOut.request.cursor # <<>>
     /\ callOut.result.next_cursor = <<>>
     /\ callOut.result.error = "none") =>
        /\ \A i, j \in 1..Len(callOut.pages) :
               (i # j /\ callOut.pages[i].file \in UnchangedFiles) =>
                   callOut.pages[i] # callOut.pages[j]
        /\ \A i \in 1..Len(MatchesNow) :
               MatchesNow[i].file \in UnchangedFiles =>
                   \E j \in 1..Len(callOut.pages) : callOut.pages[j] = MatchesNow[i]

\* C40: assemble_for_chunk(chunk_id) builds the context around a node that
\* belongs to chunk_id: the primary chunk of the result is the chunk with that
\* id, even when several nodes of the graph share the same symbol name.
C40_PrimaryChunkIsRequested ==
    (callPc = "done" /\ callOut.ok) => callOut.primary_chunk = callIn.chunk_id

\* it is so when no two nodes of the graph share a symbol name
PrimaryChunkIsRequestedWithUniqueNames ==
    (/\ callPc = "done" /\ callOut.ok
     /\ \A i, j \in 1..Len(callIn.nodes) :
            callIn.nodes[i].name = callIn.nodes[j].name => i = j)
        => callOut.primary_chunk = callIn.chunk_id

====
